---- MODULE Spec2Model ----
(***************************************************************************)
(* SentinelDesk: the audit trail, the detection rules that run on every    *)
(* new audit event, and the alert store.                                   *)
(*                                                                         *)
(* Time is counted in minutes.  An audit event's ts is the clock at the    *)
(* commit of the row (server_default=func.now()); every rule reads the     *)
(* clock again (datetime.utcnow()) when it is evaluated, which is `delay`  *)
(* minutes after the commit.  NULL stands for Python's None / SQL NULL in  *)
(* the string columns, the empty sequence for a NULL target, and 0 for a   *)
(* NULL integer column (row ids start at 1).                               *)
(***************************************************************************)
EXTENDS Integers, Sequences, FiniteSets, TLC

VARIABLES
    now,        \* the wall clock, in minutes
    audit,      \* table audit_events, in insertion order
    alerts,     \* table security_alerts, in insertion order
    lastEval,   \* locals of the latest run_detections_for_event call
    tickets,    \* table tickets, in insertion order
    response,   \* the response to the latest request of the admin router
    requests,   \* the requests in flight, each with its position and locals
    clock,      \* time.time() as the rate limiter reads it, in seconds
    request_log,\* RateLimitMiddleware.request_log: address -> timestamps
    admitted    \* per address, the requests admitted less than a window ago

vars == <<now, audit, alerts, lastEval, tickets, response, requests,
          clock, request_log, admitted>>

----------------------------------------------------------------------------
(* Bounds of the model *)

MaxTime == 11       \* the clock stops here
MaxBurst == 12      \* audit events recorded in SpecBurst
MaxEvents == 3      \* audit events recorded in the other specifications
MaxTickets == 1     \* tickets created
MaxDenials == 7     \* audit events recorded in SpecRepeated
MaxAlerts == 2      \* alerts raised in the admin specifications
MaxRequests == 2    \* requests started in the concurrent specifications
MaxClock == 60      \* the rate limiter's clock stops here
MaxOther == 1       \* entries in the rate limiter's log of the second address
MaxHistory == 1     \* audit events recorded before the attack simulation

(* Constants of the program *)

WINDOW_5 == 5
WINDOW_10 == 10
AUTH_FAIL_MIN == 10
AUTHZ_DENIED_MIN == 5
TRAVEL_MIN_IPS == 2
ADMIN_DENIED_MIN == 3
requests_per_minute == 100
window_seconds == 60

NULL == "NULL"
NoTarget == <<>>

\* Minutes between the commit of an event and the clock reading of its rules.
Delays == {0, 1}

Subs == {"U1", "U2"}
Ips == {"10.0.0.1", "10.0.0.2"}

----------------------------------------------------------------------------
(* Tables *)

RECURSIVE MaxId(_)
MaxId(rows) ==
    IF rows = <<>> THEN 0
    ELSE LET m == MaxId(Tail(rows))
         IN IF Head(rows).id > m THEN Head(rows).id ELSE m

\* INTEGER PRIMARY KEY of a new row: one more than the largest id in the table.
NewId(rows) == MaxId(rows) + 1

Indices(rows, Test(_)) == {i \in 1..Len(rows) : Test(rows[i])}

Count(rows, Test(_)) == Cardinality(Indices(rows, Test))

\* Mutant: the query orders by ascending id and returns the oldest row.
LastById_Oldest(rows) ==
    CHOOSE r \in {rows[i] : i \in 1..Len(rows)} :
        \A j \in 1..Len(rows) : r.id <= rows[j].id

\* db.query(AuditEvent).order_by(desc(AuditEvent.id)).first()
LastById(rows) ==
    CHOOSE r \in {rows[i] : i \in 1..Len(rows)} : r.id = MaxId(rows)

\* What a caller passes to audit_and_detect.
Input(actor_sub, ip, action, target, result, reason) ==
    [actor_sub |-> actor_sub, ip |-> ip, action |-> action,
     target |-> target, result |-> result, reason |-> reason]

AuditEvent(rows, t, in) ==
    [id |-> NewId(rows), ts |-> t,
     actor_sub |-> in.actor_sub, ip |-> in.ip, action |-> in.action,
     target |-> in.target, result |-> in.result, reason |-> in.reason]

\* Mutant: writing an event rewrites the reason of the events before it.
write_audit_Rewrite(rows, t, in) ==
    Append([i \in 1..Len(rows) |-> [rows[i] EXCEPT !.reason = "superseded"]],
           AuditEvent(rows, t, in))

write_audit(rows, t, in) == Append(rows, AuditEvent(rows, t, in))

----------------------------------------------------------------------------
(* Detection rules.  Each rule yields the alerts it asks _create_alert for *)
(* (none or one), given the audit trail, the event and the clock reading.  *)

Truthy(s) == s # NULL

\* "admin:" in target / AuditEvent.target.contains("admin:")
HasAdmin(target) == \E i \in 1..Len(target) : target[i] = "admin:"

Context(ip, actor_sub, count, ips, target) ==
    [ip |-> ip, actor_sub |-> actor_sub, count |-> count, ips |-> ips,
     target |-> target]

Draft(rule_id, severity, context, event_id) ==
    [rule_id |-> rule_id, severity |-> severity, context |-> context,
     trigger_event_id |-> event_id]

\* Mutant: an alert is created in status investigating.
SecurityAlert_Investigating(rows, t, d) ==
    [id |-> NewId(rows), ts |-> t, rule_id |-> d.rule_id,
     severity |-> d.severity, context |-> d.context,
     triage_status |-> "investigating",
     trigger_event_id |-> d.trigger_event_id, ticket_id |-> 0]

SecurityAlert(rows, t, d) ==
    [id |-> NewId(rows), ts |-> t, rule_id |-> d.rule_id,
     severity |-> d.severity, context |-> d.context,
     triage_status |-> "new", trigger_event_id |-> d.trigger_event_id,
     ticket_id |-> 0]

RECURSIVE _create_alert(_, _, _)
_create_alert(rows, t, drafts) ==
    IF drafts = <<>> THEN rows
    ELSE _create_alert(Append(rows, SecurityAlert(rows, t, Head(drafts))),
                       t, Tail(drafts))

\* Mutant: the cutoff lies one minute too early.
Cutoff_OneMinuteEarly(t, window) == t - window - 1

Cutoff(t, window) == t - window

\* Rule 1: auth failure burst from the same IP.
Rule1Applies(ev) == ev.action = "auth:token_invalid" /\ Truthy(ev.ip)

\* Mutant: the query leaves the triggering row out.
Recent1_ExcludesTrigger(trail, ev, t) ==
    LET Test(r) == /\ r.action = "auth:token_invalid"
                   /\ r.ip = ev.ip
                   /\ r.ts >= Cutoff(t, WINDOW_5)
                   /\ r.id # ev.id
    IN Count(trail, Test)

\* Mutant: the query counts the rejected tokens of every address.
Recent1_AnyIp(trail, ev, t) ==
    LET Test(r) == /\ r.action = "auth:token_invalid"
                   /\ r.ts >= Cutoff(t, WINDOW_5)
    IN Count(trail, Test)

Recent1(trail, ev, t) ==
    LET Test(r) == /\ r.action = "auth:token_invalid"
                   /\ r.ip = ev.ip
                   /\ r.ts >= Cutoff(t, WINDOW_5)
    IN Count(trail, Test)

\* Mutant: the threshold is compared with > instead of >=.
Rule1_StrictThreshold(trail, ev, t) ==
    IF Rule1Applies(ev) /\ Recent1(trail, ev, t) > AUTH_FAIL_MIN
    THEN <<Draft("AUTH_FAIL_BURST", "high",
                 Context(ev.ip, NULL, Recent1(trail, ev, t), {}, NoTarget),
                 ev.id)>>
    ELSE <<>>

Rule1(trail, ev, t) ==
    IF Rule1Applies(ev) /\ Recent1(trail, ev, t) >= AUTH_FAIL_MIN
    THEN <<Draft("AUTH_FAIL_BURST", "high",
                 Context(ev.ip, NULL, Recent1(trail, ev, t), {}, NoTarget),
                 ev.id)>>
    ELSE <<>>

\* Rule 3: repeated authorization failures of one actor.
Rule3Applies(ev) == ev.action = "authz:denied" /\ Truthy(ev.actor_sub)

\* Mutant: the rule counts the denials of every actor.
Recent3_AnyActor(trail, ev, t) ==
    LET Test(r) == /\ r.action = "authz:denied"
                   /\ r.ts >= Cutoff(t, WINDOW_10)
    IN Count(trail, Test)

Recent3(trail, ev, t) ==
    LET Test(r) == /\ r.action = "authz:denied"
                   /\ r.actor_sub = ev.actor_sub
                   /\ r.ts >= Cutoff(t, WINDOW_10)
    IN Count(trail, Test)

Rule3(trail, ev, t) ==
    IF Rule3Applies(ev) /\ Recent3(trail, ev, t) >= AUTHZ_DENIED_MIN
    THEN <<Draft("REPEATED_AUTHZ_DENIED", "med",
                 Context(NULL, ev.actor_sub, Recent3(trail, ev, t), {}, NoTarget),
                 ev.id)>>
    ELSE <<>>

\* Rule 4: impossible travel, checked on login events.
Rule4Applies(ev) ==
    ev.action = "auth:login" /\ Truthy(ev.actor_sub) /\ Truthy(ev.ip)

UniqueIps4(trail, ev, t) ==
    {trail[i].ip : i \in {j \in 1..Len(trail) :
                            /\ trail[j].actor_sub = ev.actor_sub
                            /\ trail[j].ip # NULL
                            /\ trail[j].ts >= Cutoff(t, WINDOW_5)}}

\* Mutant: the threshold is compared with > instead of >=.
Rule4_StrictThreshold(trail, ev, t) ==
    IF Rule4Applies(ev) /\ Cardinality(UniqueIps4(trail, ev, t)) > TRAVEL_MIN_IPS
    THEN <<Draft("IMPOSSIBLE_TRAVEL", "high",
                 Context(NULL, ev.actor_sub, 0, UniqueIps4(trail, ev, t), NoTarget),
                 ev.id)>>
    ELSE <<>>

Rule4(trail, ev, t) ==
    IF Rule4Applies(ev) /\ Cardinality(UniqueIps4(trail, ev, t)) >= TRAVEL_MIN_IPS
    THEN <<Draft("IMPOSSIBLE_TRAVEL", "high",
                 Context(NULL, ev.actor_sub, 0, UniqueIps4(trail, ev, t), NoTarget),
                 ev.id)>>
    ELSE <<>>

\* Rule 5: repeated denials on admin targets.
Rule5Applies(ev) == ev.action = "authz:denied" /\ HasAdmin(ev.target)

\* Mutant: the query does not filter on the admin target.
AdminDenials5_AnyTarget(trail, ev, t) ==
    LET Test(r) == /\ r.action = "authz:denied"
                   /\ r.actor_sub = ev.actor_sub
                   /\ r.ts >= Cutoff(t, WINDOW_10)
    IN Count(trail, Test)

AdminDenials5(trail, ev, t) ==
    LET Test(r) == /\ r.action = "authz:denied"
                   /\ r.actor_sub = ev.actor_sub
                   /\ HasAdmin(r.target)
                   /\ r.ts >= Cutoff(t, WINDOW_10)
    IN Count(trail, Test)

Rule5(trail, ev, t) ==
    IF Rule5Applies(ev) /\ AdminDenials5(trail, ev, t) >= ADMIN_DENIED_MIN
    THEN <<Draft("PRIVILEGE_ESCALATION_ATTEMPT", "high",
                 Context(NULL, ev.actor_sub, AdminDenials5(trail, ev, t), {}, NoTarget),
                 ev.id)>>
    ELSE <<>>

\* Rule 6: every use of the insecure endpoint, every blocked IDOR attempt.
\* Mutant: only reads that found their ticket raise the alert.
RuleInsecure_FoundOnly(ev) ==
    IF ev.action = "tickets:read_insecure" /\ ev.result = "success"
    THEN <<Draft("INSECURE_IDOR_ACCESS", "high",
                 Context(NULL, ev.actor_sub, 0, {}, ev.target), ev.id)>>
    ELSE <<>>

RuleInsecure(ev) ==
    IF ev.action = "tickets:read_insecure"
    THEN <<Draft("INSECURE_IDOR_ACCESS", "high",
                 Context(NULL, ev.actor_sub, 0, {}, ev.target), ev.id)>>
    ELSE <<>>

\* Mutant: the rule tests the reason the update and delete endpoints give.
RuleBlocked_OtherReason(ev) ==
    IF ev.action = "authz:denied" /\ ev.reason = "not owner"
    THEN <<Draft("BLOCKED_IDOR_ATTEMPT", "medium",
                 Context(NULL, ev.actor_sub, 0, {}, ev.target), ev.id)>>
    ELSE <<>>

RuleBlocked(ev) ==
    IF ev.action = "authz:denied" /\ ev.reason = "IDOR prevented"
    THEN <<Draft("BLOCKED_IDOR_ATTEMPT", "medium",
                 Context(NULL, ev.actor_sub, 0, {}, ev.target), ev.id)>>
    ELSE <<>>

\* The alerts table after run_detections_for_event(db, ev) at clock reading t.
run_detections_for_event(trail, rows, ev, t) ==
    _create_alert(rows, t,
        Rule1(trail, ev, t) \o Rule3(trail, ev, t) \o Rule4(trail, ev, t)
        \o Rule5(trail, ev, t) \o RuleInsecure(ev) \o RuleBlocked(ev))

\* The values the windowed rules computed for ev (-1: the rule's condition
\* did not select the event, so its query was not run).
Evaluation(trail, ev, t) ==
    [event_id |-> ev.id, event_ts |-> ev.ts, at |-> t,
     recent1 |-> IF Rule1Applies(ev) THEN Recent1(trail, ev, t) ELSE -1,
     recent3 |-> IF Rule3Applies(ev) THEN Recent3(trail, ev, t) ELSE -1,
     ips4 |-> IF Rule4Applies(ev) THEN UniqueIps4(trail, ev, t) ELSE {},
     ran4 |-> Rule4Applies(ev),
     denials5 |-> IF Rule5Applies(ev) THEN AdminDenials5(trail, ev, t) ELSE -1]

NoEvaluation ==
    [event_id |-> 0, event_ts |-> 0, at |-> 0, recent1 |-> -1, recent3 |-> -1,
     ips4 |-> {}, ran4 |-> FALSE, denials5 |-> -1]

----------------------------------------------------------------------------
(* The log-and-detect entry point, as a function of the database state.    *)

Db == [now |-> now, audit |-> audit, alerts |-> alerts, lastEval |-> lastEval]

\* audit.audit_and_detect: commit the event, refresh it, run the rules on it.
audit_and_detect(db, in, delay) ==
    LET trail == write_audit(db.audit, db.now, in)
        ev == trail[Len(trail)]
        t == db.now + delay
    IN [now |-> t, audit |-> trail,
        alerts |-> run_detections_for_event(trail, db.alerts, ev, t),
        lastEval |-> Evaluation(trail, ev, t)]

\* routes_tickets.audit_and_detect / routes_admin.audit_and_detect: write the
\* event, query the row with the highest id and run the rules on that row.
route_audit_and_detect(db, in, delay) ==
    LET trail == write_audit(db.audit, db.now, in)
        last == LastById(trail)
        t == db.now + delay
    IN [now |-> t, audit |-> trail,
        alerts |-> run_detections_for_event(trail, db.alerts, last, t),
        lastEval |-> Evaluation(trail, last, t)]

\* db.commit(): the tables take the values the call computed (once).
Commit(db) ==
    \E done \in {db} :
        /\ now' = done.now
        /\ audit' = done.audit
        /\ alerts' = done.alerts
        /\ lastEval' = done.lastEval

----------------------------------------------------------------------------
(* Actions *)

\* No admin request was served yet.
NoResponse == [op |-> "none", alert_id |-> 0, code |-> 0, detail |-> "none",
               ticket_id |-> 0]

Init ==
    /\ now = 0
    /\ audit = <<>>
    /\ alerts = <<>>
    /\ lastEval = NoEvaluation
    /\ tickets = <<>>
    /\ response = NoResponse
    /\ requests = <<>>
    /\ clock = 0
    /\ request_log = [ip \in Ips |-> <<>>]
    /\ admitted = [ip \in Ips |-> <<>>]

\* Time passes between two requests, a rule window at a time; within a
\* request it passes by the request's delay.
Tick ==
    /\ now + WINDOW_5 <= MaxTime
    /\ now' = now + WINDOW_5
    /\ UNCHANGED <<audit, alerts, lastEval, tickets, response, requests, clock, request_log, admitted>>

\* A library call audit_and_detect(db, **in), as the tests make it.  The
\* calls of simulate_attacks go through the routes' audit_and_detect, which
\* gives the same result when one call is made at a time.
LogAndDetect(in, delay, limit) ==
    /\ Len(audit) < limit
    /\ now + delay <= MaxTime
    /\ Commit(audit_and_detect(Db, in, delay))
    /\ UNCHANGED <<tickets, response, requests, clock, request_log, admitted>>

TokenInvalidInput(ip) ==
    Input(NULL, ip, "auth:token_invalid", <<"api">>, "fail", "simulated_attack")

LoginInput(sub, ip) ==
    Input(sub, ip, "auth:login", <<"api">>, "success", "simulated_travel")

DeniedInput(sub, ip, target) ==
    Input(sub, ip, "authz:denied", target, "fail", "simulated_denial")

ListInput(sub, ip) ==
    Input(sub, ip, "tickets:list", <<"count:", "0">>, "success", NULL)

----------------------------------------------------------------------------
(* SpecBurst: rejected tokens from one address. *)

BurstIps == {"10.0.0.1"}

TokenInvalid(ip, delay) == LogAndDetect(TokenInvalidInput(ip), delay, MaxBurst)

NextBurst ==
    \/ Tick
    \/ \E ip \in BurstIps, delay \in Delays : TokenInvalid(ip, delay)

SpecBurst == Init /\ [][NextBurst]_vars

----------------------------------------------------------------------------
(* SpecTravel: logins and other activity of two actors from two addresses. *)

Login(sub, ip, delay) == LogAndDetect(LoginInput(sub, ip), delay, MaxEvents)

Activity(sub, ip, delay) == LogAndDetect(ListInput(sub, ip), delay, MaxEvents)

NextTravel ==
    \/ Tick
    \/ \E sub \in Subs, ip \in Ips, delay \in Delays : Login(sub, ip, delay)
    \/ \E sub \in Subs, ip \in Ips, delay \in Delays : Activity(sub, ip, delay)

SpecTravel == Init /\ [][NextTravel]_vars

----------------------------------------------------------------------------
(* SpecDenied: authorization denials of two actors. *)

DeniedTargets == {<<"admin:", "resource:", "0">>, <<"resource:", "0">>}

Denied(sub, target, delay) ==
    LogAndDetect(DeniedInput(sub, "10.0.0.1", target), delay, MaxEvents)

NextDenied ==
    \/ Tick
    \/ \E sub \in Subs, target \in DeniedTargets, delay \in Delays :
          Denied(sub, target, delay)

SpecDenied == Init /\ [][NextDenied]_vars

----------------------------------------------------------------------------
(* SpecRepeated: authorization denials of two actors on one resource. *)

DeniedResource(sub, delay) ==
    LogAndDetect(DeniedInput(sub, "10.0.0.1", <<"resource:", "0">>), delay,
                 MaxDenials)

NextRepeated ==
    \/ Tick
    \/ \E sub \in Subs, delay \in Delays : DeniedResource(sub, delay)

SpecRepeated == Init /\ [][NextRepeated]_vars

----------------------------------------------------------------------------
(* SpecKeys: rejected tokens from two addresses and denials of two actors   *)
(* on admin and other targets.                                              *)

KeyInputs ==
    {TokenInvalidInput(ip) : ip \in Ips}
    \cup {DeniedInput(sub, "10.0.0.1", target) :
             sub \in Subs, target \in DeniedTargets}

Observe(in, delay) == LogAndDetect(in, delay, MaxEvents)

NextKeys ==
    \/ Tick
    \/ \E in \in KeyInputs, delay \in Delays : Observe(in, delay)

SpecKeys == Init /\ [][NextKeys]_vars

----------------------------------------------------------------------------
(* SpecRules: one kind of event for each windowed rule. *)

RuleInputs ==
    {TokenInvalidInput("10.0.0.1"),
     DeniedInput("U1", "10.0.0.1", <<"admin:", "resource:", "0">>)}
    \cup {LoginInput("U1", ip) : ip \in Ips}

Record(in, delay) == LogAndDetect(in, delay, MaxEvents)

NextRules ==
    \/ Tick
    \/ \E in \in RuleInputs, delay \in Delays : Record(in, delay)

SpecRules == Init /\ [][NextRules]_vars

----------------------------------------------------------------------------
(* Spec: the ticket endpoints.  A request is served within one minute of   *)
(* the clock, so its rules read the clock the event was committed at.       *)

\* rbac.GROUP_TO_ROLE: no group is mapped.
GROUP_TO_ROLE == [g \in {} |-> "viewer"]

ROLE_PERMS ==
    [viewer |-> {"tickets:read", "tickets:create", "tickets:comment",
                 "admin:export_audit"},
     analyst |-> {"tickets:read", "tickets:create", "tickets:comment"},
     admin |-> {"tickets:read", "tickets:create", "tickets:comment",
                "admin:export_audit"}]

Claims(sub) == [sub |-> sub, groups |-> {}]

roles_from_claims(claims) ==
    LET roles == {GROUP_TO_ROLE[g] : g \in claims.groups \cap DOMAIN GROUP_TO_ROLE}
    IN IF roles = {} THEN {"viewer"} ELSE roles

require_perm(claims, perm) ==
    perm \in UNION {ROLE_PERMS[r] : r \in roles_from_claims(claims)}

\* Mutant: every caller counts as privileged.
Privileged_Everyone(claims) == TRUE

Privileged(claims) == roles_from_claims(claims) \cap {"analyst", "admin"} # {}

TicketIds == 1..(MaxTickets + 1)

TicketTarget(ticket_id) == <<"ticket:", ToString(ticket_id)>>

\* db.query(Ticket).filter(Ticket.id == ticket_id).first(); <<>> when absent.
FindTicket(ticket_id) == SelectSeq(tickets, LAMBDA t : t.id = ticket_id)

Ticket(rows, sub) == [id |-> NewId(rows), status |-> "open", owner_sub |-> sub]

\* POST /tickets
CreateTicket(sub, ip) ==
    /\ Len(audit) < MaxEvents
    /\ UNCHANGED <<response, requests, clock, request_log, admitted>>
    /\ IF ~require_perm(Claims(sub), "tickets:create")
       THEN /\ Commit(route_audit_and_detect(Db,
                  Input(sub, ip, "authz:denied", <<"tickets:create">>, "fail",
                        "Missing permission"), 0))
            /\ UNCHANGED tickets
       ELSE /\ Len(tickets) < MaxTickets
            /\ tickets' = Append(tickets, Ticket(tickets, sub))
            /\ Commit(route_audit_and_detect(Db,
                  Input(sub, ip, "tickets:create", TicketTarget(NewId(tickets)),
                        "success", NULL), 0))

\* get_ticket_insecure: what the handler passes to audit_and_detect.
InsecureReadInput(sub, ip, ticket_id) ==
    LET found == FindTicket(ticket_id) # <<>>
    IN Input(sub, ip, "tickets:read_insecure", TicketTarget(ticket_id),
             IF found THEN "success" ELSE "fail",
             IF found THEN NULL ELSE "not_found")

\* get_ticket_insecure: the database after the call (the audit event is
\* logged before the 404 of a missing ticket).
get_ticket_insecure(db, sub, ip, ticket_id) ==
    route_audit_and_detect(db, InsecureReadInput(sub, ip, ticket_id), 0)

\* GET /tickets/insecure/{ticket_id}
GetTicketInsecure(sub, ip, ticket_id) ==
    /\ Len(audit) < MaxEvents
    /\ Commit(get_ticket_insecure(Db, sub, ip, ticket_id))
    /\ UNCHANGED <<tickets, response, requests, clock, request_log, admitted>>

\* get_ticket_secure: what the handler passes to audit_and_detect.
SecureReadInput(sub, ip, ticket_id) ==
    LET t == FindTicket(ticket_id)
    IN IF ~require_perm(Claims(sub), "tickets:read")
       THEN Input(sub, ip, "authz:denied",
                  <<"tickets:read", "ticket:", ToString(ticket_id)>>,
                  "fail", "Missing permission")
       ELSE IF t = <<>>
       THEN Input(sub, ip, "tickets:read", TicketTarget(ticket_id),
                  "fail", "not_found")
       ELSE IF ~Privileged(Claims(sub)) /\ t[1].owner_sub # sub
       THEN Input(sub, ip, "authz:denied", TicketTarget(ticket_id),
                  "fail", "IDOR prevented")
       ELSE Input(sub, ip, "tickets:read", TicketTarget(ticket_id),
                  "success", NULL)

\* GET /tickets/{ticket_id}
GetTicketSecure(sub, ip, ticket_id) ==
    /\ Len(audit) < MaxEvents
    /\ Commit(route_audit_and_detect(Db, SecureReadInput(sub, ip, ticket_id), 0))
    /\ UNCHANGED <<tickets, response, requests, clock, request_log, admitted>>

ClientIps == {"10.0.0.1"}

Next ==
    \/ Tick
    \/ \E sub \in Subs, ip \in ClientIps : CreateTicket(sub, ip)
    \/ \E sub \in Subs, ip \in ClientIps, ticket_id \in TicketIds :
          GetTicketInsecure(sub, ip, ticket_id)
    \/ \E sub \in Subs, ip \in ClientIps, ticket_id \in TicketIds :
          GetTicketSecure(sub, ip, ticket_id)

Spec == Init /\ [][Next]_vars

----------------------------------------------------------------------------
(* The admin router, one request at a time.  Each handler is a function of  *)
(* the database: the tables and the response once it has returned.          *)

STATUSES == {"new", "investigating", "resolved", "false_positive"}

Response(op, alert_id, code, detail, ticket_id) ==
    [op |-> op, alert_id |-> alert_id, code |-> code, detail |-> detail,
     ticket_id |-> ticket_id]

Served(db, tks, resp) == [db |-> db, tickets |-> tks, response |-> resp]

\* GET /tickets/{ticket_id}: the database after the call and the response;
\* ticket_id of the response is the ticket whose content is returned.
get_ticket_secure(db, sub, ip, ticket_id) ==
    LET op == "get_ticket_secure"
        in == SecureReadInput(sub, ip, ticket_id)
    IN Served(route_audit_and_detect(db, in, 0), tickets,
              IF in.result = "success"
              THEN Response(op, 0, 200, "OK", ticket_id)
              ELSE IF in.reason = "not_found"
              THEN Response(op, 0, 404, "Not found", 0)
              ELSE Response(op, 0, 403, "Forbidden", 0))

\* db.query(SecurityAlert).filter(SecurityAlert.id == alert_id).first()
FindAlert(rows, alert_id) == SelectSeq(rows, LAMBDA a : a.id = alert_id)

AlertTarget(alert_id) == <<"alert:", ToString(alert_id)>>

\* PATCH /admin/alerts/{alert_id}
\* Mutant: the handler accepts any status value.
ValidStatus_Any(new_status) == TRUE

\* new_status in ["new", "investigating", "resolved", "false_positive"]
ValidStatus(new_status) == new_status \in STATUSES

\* The reason update_alert_status records for a successful update.
StatusChange(old_status, new_status) ==
    "changed status from " \o old_status \o " to " \o new_status

update_alert_status(db, tks, sub, ip, alert_id, new_status) ==
    LET found == FindAlert(db.alerts, alert_id)
        op == "update_alert_status"
    IN IF ~require_perm(Claims(sub), "admin:export_audit")
       THEN Served(db, tks, Response(op, alert_id, 403, "Forbidden", 0))
       ELSE IF found = <<>>
       THEN Served(db, tks, Response(op, alert_id, 404, "Alert not found", 0))
       ELSE IF ~ValidStatus(new_status)
       THEN Served(db, tks, Response(op, alert_id, 400, "Invalid status", 0))
       ELSE LET old_status == found[1].triage_status
                updated ==
                    [db EXCEPT !.alerts =
                        [i \in 1..Len(db.alerts) |->
                            IF db.alerts[i].id = alert_id
                            THEN [db.alerts[i] EXCEPT !.triage_status = new_status]
                            ELSE db.alerts[i]]]
            IN Served(route_audit_and_detect(updated,
                          Input(sub, ip, "alert:triage", AlertTarget(alert_id),
                                "success",
                                StatusChange(old_status, new_status)), 0),
                      tks, Response(op, alert_id, 200, "Alert status updated", 0))

\* The ticket escalate_alert creates; its body names the source alert.
IncidentTicket(rows, sub, alert) ==
    [id |-> NewId(rows), status |-> "open", owner_sub |-> sub,
     source_alert_id |-> alert.id]

\* Mutant: the link is committed without the status.
LinkTicket_LinkOnly(rows, alert_id, ticket_id) ==
    [i \in 1..Len(rows) |->
        IF rows[i].id = alert_id
        THEN [rows[i] EXCEPT !.ticket_id = ticket_id]
        ELSE rows[i]]

\* Link back and update status.
LinkTicket(rows, alert_id, ticket_id) ==
    [i \in 1..Len(rows) |->
        IF rows[i].id = alert_id
        THEN [rows[i] EXCEPT !.ticket_id = ticket_id,
                             !.triage_status = "investigating"]
        ELSE rows[i]]

\* Mutant: the handler does not look at the alert's link.
AlreadyLinked_Never(alert) == FALSE

\* if alert.ticket_id:
AlreadyLinked(alert) == alert.ticket_id # 0

\* POST /admin/alerts/{alert_id}/escalate
escalate_alert(db, tks, sub, ip, alert_id) ==
    LET found == FindAlert(db.alerts, alert_id)
        op == "escalate_alert"
    IN IF ~require_perm(Claims(sub), "admin:export_audit")
       THEN Served(db, tks, Response(op, alert_id, 403, "Forbidden", 0))
       ELSE IF found = <<>>
       THEN Served(db, tks, Response(op, alert_id, 404, "Alert not found", 0))
       ELSE IF AlreadyLinked(found[1])
       THEN Served(db, tks, Response(op, alert_id, 200, "Ticket already exists",
                                     found[1].ticket_id))
       ELSE LET ticket == IncidentTicket(tks, sub, found[1])
                linked == [db EXCEPT !.alerts =
                              LinkTicket(db.alerts, alert_id, ticket.id)]
            IN Served(route_audit_and_detect(linked,
                          Input(sub, ip, "alert:escalate", TicketTarget(ticket.id),
                                "success",
                                "escalated alert " \o ToString(alert_id)), 0),
                      Append(tks, ticket),
                      Response(op, alert_id, 200, "Ticket created", ticket.id))

\* DELETE /admin/alerts/{alert_id}
delete_alert(db, tks, sub, alert_id) ==
    LET op == "delete_alert"
    IN IF ~require_perm(Claims(sub), "admin:export_audit")
       THEN Served(db, tks, Response(op, alert_id, 403, "Forbidden", 0))
       ELSE IF FindAlert(db.alerts, alert_id) = <<>>
       THEN Served(db, tks, Response(op, alert_id, 404, "Alert not found", 0))
       ELSE Served([db EXCEPT !.alerts =
                       SelectSeq(db.alerts, LAMBDA a : a.id # alert_id)],
                   tks, Response(op, alert_id, 200, "Alert deleted", 0))

\* DELETE /admin/alerts
clear_all_alerts(db, tks, sub) ==
    LET op == "clear_all_alerts"
    IN IF ~require_perm(Claims(sub), "admin:export_audit")
       THEN Served(db, tks, Response(op, 0, 403, "Forbidden", 0))
       ELSE Served([db EXCEPT !.alerts = <<>>], tks,
                   Response(op, 0, 200,
                            "Deleted " \o ToString(Len(db.alerts)) \o " alerts", 0))

\* Mutant: a successful export is recorded in the trail.
export_audit_Audited(db, tks, sub, ip) ==
    Served(route_audit_and_detect(db,
               Input(sub, ip, "admin:export_audit", <<"audit_events">>,
                     "success", NULL), 0),
           tks, Response("export_audit", 0, 200, "events", 0))

\* GET /admin/audit: the most recent events are returned; a successful read
\* is not recorded.
export_audit(db, tks, sub, ip) ==
    LET op == "export_audit"
    IN IF ~require_perm(Claims(sub), "admin:export_audit")
       THEN Served(route_audit_and_detect(db,
                       Input(sub, ip, "authz:denied", <<"admin:", "export_audit">>,
                             "fail", "Missing permission"), 0),
                   tks, Response(op, 0, 403, "Forbidden", 0))
       ELSE Served(db, tks, Response(op, 0, 200, "events", 0))

\* GET /admin/alerts
list_alerts(db, tks, sub, ip) ==
    LET op == "list_alerts"
    IN IF ~require_perm(Claims(sub), "admin:export_audit")
       THEN Served(route_audit_and_detect(db,
                       Input(sub, ip, "authz:denied", <<"admin:", "alerts">>,
                             "fail", "Missing permission"), 0),
                   tks, Response(op, 0, 403, "Forbidden", 0))
       ELSE Served(db, tks, Response(op, 0, 200, "alerts", 0))

\* Mutant: the purge is recorded first, and the record is deleted with the rest.
clear_audit_log_LogFirst(db, tks, sub, ip) ==
    LET count == Len(db.audit) + 1
        logged == route_audit_and_detect(db,
                      Input(sub, ip, "admin:clear_audit", <<"audit_events">>,
                            "success",
                            "deleted " \o ToString(count) \o " events"), 0)
    IN Served([logged EXCEPT !.audit = <<>>], tks,
              Response("clear_audit_log", 0, 200,
                       "Cleared " \o ToString(count) \o " audit events", 0))

\* DELETE /admin/audit
clear_audit_log(db, tks, sub, ip) ==
    LET op == "clear_audit_log"
    IN IF ~require_perm(Claims(sub), "admin:export_audit")
       THEN Served(route_audit_and_detect(db,
                       Input(sub, ip, "authz:denied", <<"admin:", "clear_audit">>,
                             "fail", "forbidden"), 0),
                   tks, Response(op, 0, 403, "Forbidden", 0))
       ELSE LET count == Len(db.audit)
                purged == [db EXCEPT !.audit = <<>>]
            IN Served(route_audit_and_detect(purged,
                          Input(sub, ip, "admin:clear_audit", <<"audit_events">>,
                                "success",
                                "deleted " \o ToString(count) \o " events"), 0),
                      tks,
                      Response(op, 0, 200,
                               "Cleared " \o ToString(count) \o " audit events", 0))

\* The request is served: the tables are as the handler left them.  The model
\* serves a request only while its tables stay within the bounds.
Serve(served) ==
    \E r \in {served} :
        /\ Len(r.db.audit) <= MaxEvents
        /\ Len(r.tickets) <= MaxAlerts
        /\ Commit(r.db)
        /\ tickets' = r.tickets
        /\ response' = r.response
        /\ UNCHANGED <<requests, clock, request_log, admitted>>

UpdateAlertStatus(sub, ip, alert_id, new_status) ==
    Serve(update_alert_status(Db, tickets, sub, ip, alert_id, new_status))

EscalateAlert(sub, ip, alert_id) ==
    Serve(escalate_alert(Db, tickets, sub, ip, alert_id))

DeleteAlert(sub, alert_id) == Serve(delete_alert(Db, tickets, sub, alert_id))

ClearAllAlerts(sub) == Serve(clear_all_alerts(Db, tickets, sub))

ClearAuditLog(sub, ip) == Serve(clear_audit_log(Db, tickets, sub, ip))

\* An insecure read, which raises an alert to triage.
RaiseAlert(sub, ip) ==
    /\ Len(alerts) < MaxAlerts
    /\ GetTicketInsecure(sub, ip, 1)

AdminSubs == {"U1"}

AlertIds == 1..(MaxAlerts + 1)

\* The status a PATCH body carries: a value of the enumeration, another
\* value, or none.
StatusInputs == STATUSES \cup {"closed", NULL}

----------------------------------------------------------------------------
(* SpecTriage: alerts are raised, triaged, escalated and deleted. *)

NextTriage ==
    \/ \E sub \in AdminSubs, ip \in ClientIps : RaiseAlert(sub, ip)
    \/ \E sub \in AdminSubs, ip \in ClientIps, alert_id \in AlertIds,
          new_status \in StatusInputs :
          UpdateAlertStatus(sub, ip, alert_id, new_status)
    \/ \E sub \in AdminSubs, ip \in ClientIps, alert_id \in AlertIds :
          EscalateAlert(sub, ip, alert_id)
    \/ \E sub \in AdminSubs, alert_id \in AlertIds : DeleteAlert(sub, alert_id)

SpecTriage == Init /\ [][NextTriage]_vars

----------------------------------------------------------------------------
(* SpecPurge: the audit trail is written by the ticket and admin endpoints  *)
(* and purged.                                                              *)

NextPurge ==
    \/ \E sub \in AdminSubs, ip \in ClientIps : RaiseAlert(sub, ip)
    \/ \E sub \in AdminSubs, ip \in ClientIps : CreateTicket(sub, ip)
    \/ \E sub \in AdminSubs, ip \in ClientIps :
          UpdateAlertStatus(sub, ip, 1, "resolved")
    \/ \E sub \in AdminSubs, ip \in ClientIps : EscalateAlert(sub, ip, 1)
    \/ \E sub \in AdminSubs : ClearAllAlerts(sub)
    \/ \E sub \in AdminSubs, ip \in ClientIps : ClearAuditLog(sub, ip)

SpecPurge == Init /\ [][NextPurge]_vars

----------------------------------------------------------------------------
(* SpecView: the audit log and the alerts are viewed while alerts are       *)
(* raised and triaged.                                                      *)

ExportAudit(sub, ip) == Serve(export_audit(Db, tickets, sub, ip))

ListAlerts(sub, ip) == Serve(list_alerts(Db, tickets, sub, ip))

NextView ==
    \/ \E sub \in AdminSubs, ip \in ClientIps : RaiseAlert(sub, ip)
    \/ \E sub \in AdminSubs, ip \in ClientIps, alert_id \in AlertIds,
          new_status \in STATUSES :
          UpdateAlertStatus(sub, ip, alert_id, new_status)
    \/ \E sub \in Subs, ip \in ClientIps : ExportAudit(sub, ip)
    \/ \E sub \in Subs, ip \in ClientIps : ListAlerts(sub, ip)

SpecView == Init /\ [][NextView]_vars

----------------------------------------------------------------------------
(* SpecEntry: events are logged through both implementations of the entry   *)
(* point, one call at a time: the library's by direct callers, the routes'  *)
(* by the endpoints; the trail is purged in between.                        *)

\* What the direct callers log: events that raise no alert on their own, so
\* that the alerts stay within MaxAlerts across purges.
DirectInputs == {TokenInvalidInput("10.0.0.1"), LoginInput("U1", "10.0.0.1")}

NextEntry ==
    \/ \E in \in DirectInputs : Record(in, 0)
    \/ \E sub \in AdminSubs, ip \in ClientIps : RaiseAlert(sub, ip)
    \/ \E sub \in AdminSubs, ip \in ClientIps : ClearAuditLog(sub, ip)

SpecEntry == Init /\ [][NextEntry]_vars

----------------------------------------------------------------------------
(* Requests in flight.  Several requests are served at a time, each on its  *)
(* own session; a step of a request is one round trip to the database (a    *)
(* query, or a flush and commit), and the steps of different requests       *)
(* interleave.                                                              *)

\* No call of audit_and_detect was prepared.
NoInput == Input(NULL, NULL, "none", NoTarget, "none", NULL)

Request(op, pc, sub, ip, alert_id, ticket_id, event_id) ==
    [op |-> op, pc |-> pc, sub |-> sub, ip |-> ip, alert_id |-> alert_id,
     ticket_id |-> ticket_id, event_id |-> event_id, evaluated |-> 0,
     alerts_on_return |-> 0, input |-> NoInput, failed_rule |-> "none",
     step |-> 0]

InFlight(i) == requests[i].pc \notin {"done", "failed"}

\* The alerts, of any rule, with this trigger.
TriggeredBy(rows, event_id) ==
    SelectSeq(rows, LAMBDA a : a.trigger_event_id = event_id)

\* The process serving the request dies, or its connection to the store is
\* lost: the request takes no further step.  What it committed stays.
Fail(i) ==
    /\ InFlight(i)
    /\ requests' = [requests EXCEPT ![i].pc = "failed"]
    /\ UNCHANGED <<now, audit, alerts, lastEval, tickets, response, clock, request_log, admitted>>

\* write_audit(db, **kwargs) of a route's audit_and_detect: add and commit.
RouteWriteAudit(i, in, next_pc, limit) ==
    /\ Len(audit) < limit
    /\ audit' = write_audit(audit, now, in)
    /\ requests' = [requests EXCEPT ![i].pc = next_pc,
                                    ![i].event_id = NewId(audit)]
    /\ UNCHANGED <<now, alerts, lastEval, tickets, response, clock, request_log, admitted>>

\* The rest of a route's audit_and_detect: query the row with the highest id,
\* run the rules on it, and return.
RouteDetect(i) ==
    /\ requests[i].pc = "detect"
    /\ LET last == LastById(audit)
           raised == IF audit = <<>> THEN alerts
                     ELSE run_detections_for_event(audit, alerts, last, now)
       IN /\ alerts' = raised
          /\ lastEval' = IF audit = <<>> THEN lastEval
                         ELSE Evaluation(audit, last, now)
          /\ requests' =
                [requests EXCEPT
                    ![i].pc = "done",
                    ![i].evaluated = IF audit = <<>> THEN 0 ELSE last.id,
                    ![i].alerts_on_return =
                        Len(TriggeredBy(raised, requests[i].event_id))]
    /\ UNCHANGED <<now, audit, tickets, response, clock, request_log, admitted>>

----------------------------------------------------------------------------
(* SpecEscalate: concurrent escalations of the alerts, and failures.        *)

\* escalate_alert up to its first write: the alert is read and checked.
EscalateStart(sub, ip, alert_id) ==
    /\ Len(requests) < MaxRequests
    /\ require_perm(Claims(sub), "admin:export_audit")
    /\ LET found == FindAlert(alerts, alert_id)
           op == "escalate_alert"
       IN requests' = Append(requests,
              IF found = <<>>
              THEN Request(op, "done", sub, ip, alert_id, 0, 0)
              ELSE IF AlreadyLinked(found[1])
              THEN Request(op, "done", sub, ip, alert_id, found[1].ticket_id, 0)
              ELSE Request(op, "create", sub, ip, alert_id, 0, 0))
    /\ UNCHANGED <<now, audit, alerts, lastEval, tickets, response, clock, request_log, admitted>>

\* db.add(ticket); db.commit(); db.refresh(ticket)
EscalateCreate(i) ==
    /\ requests[i].op = "escalate_alert" /\ requests[i].pc = "create"
    /\ LET ticket == IncidentTicket(tickets, requests[i].sub,
                                    [id |-> requests[i].alert_id])
       IN /\ tickets' = Append(tickets, ticket)
          /\ requests' = [requests EXCEPT ![i].pc = "link",
                                          ![i].ticket_id = ticket.id]
    /\ UNCHANGED <<now, audit, alerts, lastEval, response, clock, request_log, admitted>>

\* alert.ticket_id = ticket.id; alert.triage_status = "investigating"; db.commit()
EscalateLink(i) ==
    /\ requests[i].op = "escalate_alert" /\ requests[i].pc = "link"
    /\ alerts' = LinkTicket(alerts, requests[i].alert_id, requests[i].ticket_id)
    /\ requests' = [requests EXCEPT ![i].pc = "audit"]
    /\ UNCHANGED <<now, audit, lastEval, tickets, response, clock, request_log, admitted>>

EscalateAudit(i) ==
    /\ requests[i].op = "escalate_alert" /\ requests[i].pc = "audit"
    /\ RouteWriteAudit(i,
           Input(requests[i].sub, requests[i].ip, "alert:escalate",
                 TicketTarget(requests[i].ticket_id), "success",
                 "escalated alert " \o ToString(requests[i].alert_id)),
           "detect", MaxEvents)

NextEscalate ==
    \/ \E sub \in AdminSubs, ip \in ClientIps : RaiseAlert(sub, ip)
    \/ \E sub \in AdminSubs, ip \in ClientIps, alert_id \in AlertIds :
          EscalateStart(sub, ip, alert_id)
    \/ \E i \in 1..Len(requests) : EscalateCreate(i)
    \/ \E i \in 1..Len(requests) : EscalateLink(i)
    \/ \E i \in 1..Len(requests) : EscalateAudit(i)
    \/ \E i \in 1..Len(requests) : RouteDetect(i)
    \/ \E i \in 1..Len(requests) : Fail(i)

SpecEscalate == Init /\ [][NextEscalate]_vars

----------------------------------------------------------------------------
(* SpecRoutes: ticket reads, some of them served concurrently.              *)

\* A secure read that runs from its first line to its last with no step of
\* another request in between.
SecureRead(sub, ip, ticket_id) ==
    /\ Len(audit) < MaxDenials
    /\ Commit(route_audit_and_detect(Db, SecureReadInput(sub, ip, ticket_id), 0))
    /\ UNCHANGED <<tickets, response, requests, clock, request_log, admitted>>

\* get_ticket_secure up to its call of audit_and_detect.
SecureReadStart(sub, ip, ticket_id) ==
    /\ Len(requests) < MaxRequests
    /\ requests' = Append(requests,
           [Request("get_ticket_secure", "audit", sub, ip, 0, ticket_id, 0)
               EXCEPT !.input = SecureReadInput(sub, ip, ticket_id)])
    /\ UNCHANGED <<now, audit, alerts, lastEval, tickets, response, clock, request_log, admitted>>

\* get_ticket_insecure up to its call of audit_and_detect.
InsecureReadStart(sub, ip, ticket_id) ==
    /\ Len(requests) < MaxRequests
    /\ requests' = Append(requests,
           [Request("get_ticket_insecure", "audit", sub, ip, 0, ticket_id, 0)
               EXCEPT !.input = InsecureReadInput(sub, ip, ticket_id)])
    /\ UNCHANGED <<now, audit, alerts, lastEval, tickets, response, clock, request_log, admitted>>

RouteAudit(i) ==
    /\ requests[i].pc = "audit"
    /\ requests[i].op \in {"get_ticket_secure", "get_ticket_insecure"}
    /\ RouteWriteAudit(i, requests[i].input, "detect", MaxDenials)

NextRoutes ==
    \/ \E ip \in ClientIps : CreateTicket("U2", ip)
    \/ \E ip \in ClientIps : SecureRead("U1", ip, 1)
    \/ \E ip \in ClientIps : SecureReadStart("U1", ip, 1)
    \/ \E ip \in ClientIps : InsecureReadStart("U2", ip, 1)
    \/ \E i \in 1..Len(requests) : RouteAudit(i)
    \/ \E i \in 1..Len(requests) : RouteDetect(i)

SpecRoutes == Init /\ [][NextRoutes]_vars

----------------------------------------------------------------------------
(* SpecFaults: ticket reads while the store or a rule may fail.  Nothing in *)
(* audit_and_detect, run_detections_for_event or the handlers catches an    *)
(* exception of a database call: it unwinds the request.                    *)

\* The rules in the order run_detections_for_event evaluates them.
RULES ==
    <<"AUTH_FAIL_BURST", "REPEATED_AUTHZ_DENIED", "IMPOSSIBLE_TRAVEL",
      "PRIVILEGE_ESCALATION_ATTEMPT", "INSECURE_IDOR_ACCESS",
      "BLOCKED_IDOR_ATTEMPT">>

\* The condition of the k-th rule selects the event, so the rule issues a
\* query or an alert write, which may raise.
RuleRuns(k, ev) ==
    CASE k = 1 -> Rule1Applies(ev)
      [] k = 2 -> Rule3Applies(ev)
      [] k = 3 -> Rule4Applies(ev)
      [] k = 4 -> Rule5Applies(ev)
      [] k = 5 -> ev.action = "tickets:read_insecure"
      [] k = 6 -> ev.action = "authz:denied" /\ ev.reason = "IDOR prevented"

\* The alerts the k-th rule asks for.
RuleDrafts(k, trail, ev, t) ==
    CASE k = 1 -> Rule1(trail, ev, t)
      [] k = 2 -> Rule3(trail, ev, t)
      [] k = 3 -> Rule4(trail, ev, t)
      [] k = 4 -> Rule5(trail, ev, t)
      [] k = 5 -> RuleInsecure(ev)
      [] k = 6 -> RuleBlocked(ev)

RECURSIVE DraftsBefore(_, _, _, _)
DraftsBefore(k, trail, ev, t) ==
    IF k <= 1 THEN <<>>
    ELSE DraftsBefore(k - 1, trail, ev, t) \o RuleDrafts(k - 1, trail, ev, t)

\* The alerts table when the k-th rule raises in run_detections_for_event:
\* the alerts of the rules before it are committed, one commit each, and the
\* rules after it are not reached.
run_detections_raising(trail, rows, ev, t, k) ==
    _create_alert(rows, t, DraftsBefore(k, trail, ev, t))

\* Mutant: audit_and_detect catches the error of write_audit and goes on.
OnStorageUnavailable_Swallowed == "detect"

\* Where a request is after write_audit raised: the exception left
\* audit_and_detect and the handler.
OnStorageUnavailable == "failed"

\* db.commit() of write_audit raises: the store is unavailable.
StorageUnavailable(i) ==
    /\ requests[i].pc = "audit"
    /\ requests' = [requests EXCEPT ![i].pc = OnStorageUnavailable]
    /\ UNCHANGED <<now, audit, alerts, lastEval, tickets, response, clock, request_log, admitted>>

\* The k-th rule raises while the request evaluates the latest event.
RuleFails(i, k) ==
    /\ requests[i].pc = "detect"
    /\ audit # <<>>
    /\ LET last == LastById(audit)
           raised == run_detections_raising(audit, alerts, last, now, k)
       IN /\ RuleRuns(k, last)
          /\ alerts' = raised
          /\ requests' =
                [requests EXCEPT
                    ![i].pc = "failed",
                    ![i].evaluated = last.id,
                    ![i].failed_rule = RULES[k],
                    ![i].alerts_on_return =
                        Len(TriggeredBy(raised, requests[i].event_id))]
    /\ UNCHANGED <<now, audit, lastEval, tickets, response, clock, request_log, admitted>>

NextFaults ==
    \/ \E ip \in ClientIps : CreateTicket("U2", ip)
    \/ \E ip \in ClientIps : SecureReadStart("U1", ip, 1)
    \/ \E ip \in ClientIps : InsecureReadStart("U2", ip, 1)
    \/ \E i \in 1..Len(requests) : RouteAudit(i)
    \/ \E i \in 1..Len(requests) : RouteDetect(i)
    \/ \E i \in 1..Len(requests) : StorageUnavailable(i)
    \/ \E i \in 1..Len(requests), k \in 1..Len(RULES) : RuleFails(i, k)

SpecFaults == Init /\ [][NextFaults]_vars

----------------------------------------------------------------------------
(* SpecLimit: the rate limiting middleware.  Requests arrive from two       *)
(* addresses while the clock advances by half a window at a time.  The      *)
(* middleware runs on the event loop and does not await between reading the *)
(* clock and appending to the log, so a request is one step.                *)

METHODS == {"GET", "OPTIONS"}

\* Seconds between two readings of the clock.
Pace == 30

\* Younger than the window at clock reading t.
Young(ts, t) == ts > t - window_seconds

\* Mutant: a request that is exactly one window old is kept.
_clean_old_requests_Inclusive(log, ip, t) ==
    [log EXCEPT ![ip] = SelectSeq(log[ip], LAMBDA ts : ts >= t - window_seconds)]

\* RateLimitMiddleware._clean_old_requests
_clean_old_requests(log, ip, t) ==
    [log EXCEPT ![ip] = SelectSeq(log[ip], LAMBDA ts : ts > t - window_seconds)]

\* RateLimitMiddleware.dispatch: the log it leaves and the status of the
\* response (429 is the HTTPException it raises, 200 the response of
\* call_next).
dispatch(log, method, client_ip, t) ==
    IF method = "OPTIONS"
    THEN [request_log |-> log, code |-> 200]
    ELSE LET cleaned == _clean_old_requests(log, client_ip, t)
         IN IF Len(cleaned[client_ip]) >= requests_per_minute
            THEN [request_log |-> cleaned, code |-> 429]
            ELSE [request_log |->
                      [cleaned EXCEPT ![client_ip] = Append(@, t)],
                  code |-> 200]

\* A request arrives.  The second address sends only while its log holds
\* fewer than MaxOther entries.
Arrive(ip, method) ==
    /\ ip = "10.0.0.1" \/ Len(request_log[ip]) < MaxOther
    /\ \E r \in {dispatch(request_log, method, ip, clock)} :
          /\ request_log' = r.request_log
          /\ response' = Response("dispatch", 0, r.code,
                                  IF r.code = 429 THEN "Rate limit exceeded"
                                  ELSE "call_next", 0)
          /\ admitted' = IF method # "OPTIONS" /\ r.code # 429
                         THEN [admitted EXCEPT ![ip] = Append(@, clock)]
                         ELSE admitted
    /\ UNCHANGED <<now, audit, alerts, lastEval, tickets, requests, clock>>

\* Time passes; admitted requests a window old or older leave the window.
Elapse ==
    /\ clock + Pace <= MaxClock
    /\ clock' = clock + Pace
    /\ admitted' = [ip \in Ips |->
                       SelectSeq(admitted[ip], LAMBDA ts : Young(ts, clock'))]
    /\ UNCHANGED <<now, audit, alerts, lastEval, tickets, response, requests,
                   request_log>>

NextLimit ==
    \/ \E ip \in Ips, method \in METHODS : Arrive(ip, method)
    \/ Elapse

SpecLimit == Init /\ [][NextLimit]_vars

----------------------------------------------------------------------------
(* SpecSimulate: the attack simulation, after some earlier activity.  The   *)
(* simulation is one request; each of its calls of audit_and_detect is a    *)
(* step, and nothing else writes while it runs.                             *)

\* Mutant: the simulation sends ten rejected tokens.
SimulationScript_TenTokens(sub, ip) ==
    [k \in 1..10 |-> TokenInvalidInput(ip)]
    \o <<Input(sub, "203.0.113.10", "auth:login", <<"api">>, "success",
               "simulated_travel"),
         Input(sub, "192.0.2.20", "auth:login", <<"api">>, "success",
               "simulated_travel")>>
    \o [k \in 1..6 |->
           Input(sub, ip, "authz:denied", <<"resource:", ToString(k - 1)>>,
                 "fail", "simulated_denial")]
    \o [k \in 1..4 |->
           Input(sub, ip, "authz:denied",
                 <<"admin:", "resource:", ToString(k - 1)>>,
                 "fail", "simulated_privilege_escalation")]

\* The calls of audit_and_detect that simulate_attacks makes, in order.
SimulationScript(sub, ip) ==
    [k \in 1..12 |-> TokenInvalidInput(ip)]
    \o <<Input(sub, "203.0.113.10", "auth:login", <<"api">>, "success",
               "simulated_travel"),
         Input(sub, "192.0.2.20", "auth:login", <<"api">>, "success",
               "simulated_travel")>>
    \o [k \in 1..6 |->
           Input(sub, ip, "authz:denied", <<"resource:", ToString(k - 1)>>,
                 "fail", "simulated_denial")]
    \o [k \in 1..4 |->
           Input(sub, ip, "authz:denied",
                 <<"admin:", "resource:", ToString(k - 1)>>,
                 "fail", "simulated_privilege_escalation")]

\* What was logged before the simulation.
HistoryInputs ==
    {TokenInvalidInput(ip) : ip \in Ips}
    \cup {LoginInput("U1", "10.0.0.2"),
          DeniedInput("U1", "10.0.0.2", <<"admin:", "resource:", "0">>)}

Earlier(in, delay) ==
    /\ requests = <<>>
    /\ LogAndDetect(in, delay, MaxHistory)

Later ==
    /\ requests = <<>>
    /\ Tick

\* POST /admin/simulate-attacks: the token is verified and the permission
\* checked; a caller without it gets 403 and nothing is logged.
SimulateStart(sub, ip) ==
    /\ requests = <<>>
    /\ requests' =
          <<Request("simulate_attacks",
                    IF require_perm(Claims(sub), "admin:export_audit")
                    THEN "audit" ELSE "done",
                    sub, ip, 0, 0, 0)>>
    /\ response' =
          IF require_perm(Claims(sub), "admin:export_audit") THEN response
          ELSE Response("simulate_attacks", 0, 403, "Forbidden", 0)
    /\ UNCHANGED <<now, audit, alerts, lastEval, tickets, clock, request_log,
                   admitted>>

\* The next call of audit_and_detect of the simulation; after the last one
\* the handler returns.  The simulation is over within the minute.
SimulateCall(i) ==
    /\ requests[i].op = "simulate_attacks"
    /\ requests[i].pc = "audit"
    /\ LET script == SimulationScript(requests[i].sub, requests[i].ip)
           k == requests[i].step + 1
       IN /\ Commit(route_audit_and_detect(Db, script[k], 0))
          /\ requests' = [requests EXCEPT
                             ![i].step = k,
                             ![i].event_id = NewId(audit),
                             ![i].pc = IF k = Len(script) THEN "done"
                                       ELSE "audit"]
          /\ response' =
                IF k = Len(script)
                THEN Response("simulate_attacks", 0, 200,
                              "Simulated attacks executed", 0)
                ELSE response
    /\ UNCHANGED <<tickets, clock, request_log, admitted>>

NextSimulate ==
    \/ \E in \in HistoryInputs, delay \in Delays : Earlier(in, delay)
    \/ Later
    \/ \E sub \in Subs, ip \in ClientIps : SimulateStart(sub, ip)
    \/ \E i \in 1..Len(requests) : SimulateCall(i)

SpecSimulate == Init /\ [][NextSimulate]_vars

----------------------------------------------------------------------------
(* Claims *)

AlertsOf(rule_id) == SelectSeq(alerts, LAMBDA a : a.rule_id = rule_id)

\* The alerts of a rule that an event triggered.
AlertsOn(rule_id, event_id) ==
    SelectSeq(alerts, LAMBDA a : a.rule_id = rule_id /\ a.trigger_event_id = event_id)

\* Every row of the sequence was recorded within the last `minutes`.
RecordedWithin(rows, minutes) ==
    \A k \in 1..Len(rows) : rows[k].ts >= now - minutes

AuthFailures(ip) ==
    SelectSeq(audit, LAMBDA r : r.action = "auth:token_invalid" /\ r.ip = ip)

\* C1: when the auth:token_invalid events of one non-empty source IP were all
\* recorded within 5 minutes, the 10th and every later one of them has
\* exactly one AUTH_FAIL_BURST alert, of severity high, and each of the first
\* 9 has none: the rule fires again on every further event.
C1_BurstFiresFromTenth ==
    \A ip \in BurstIps \ {NULL} :
        LET evs == AuthFailures(ip)
        IN RecordedWithin(evs, 5) =>
             \A k \in 1..Len(evs) :
                LET got == AlertsOn("AUTH_FAIL_BURST", evs[k].id)
                IN /\ Len(got) = IF k >= 10 THEN 1 ELSE 0
                   /\ \A j \in 1..Len(got) : got[j].severity = "high"

\* 11 events of one IP within 5 minutes, not all at the same minute, with an
\* alert on the 10th and another on the 11th.
C1_Witness ==
    \E ip \in BurstIps \ {NULL} :
        LET evs == AuthFailures(ip)
        IN /\ Len(evs) = 11
           /\ RecordedWithin(evs, 5)
           /\ evs[1].ts < evs[11].ts
           /\ Len(AlertsOn("AUTH_FAIL_BURST", evs[10].id)) = 1
           /\ Len(AlertsOn("AUTH_FAIL_BURST", evs[11].id)) = 1
           /\ Len(AlertsOf("AUTH_FAIL_BURST")) = 2

\* C2: when the auth:token_invalid events of one IP were all recorded within
\* one minute, its AUTH_FAIL_BURST alerts are one per event from the 10th on,
\* in order, and the count of the alert on the k-th event is k: 12 events
\* give 3 alerts with counts 10, 11 and 12.
C2_BurstCountIsRunningCount ==
    \A ip \in BurstIps \ {NULL} :
        LET evs == AuthFailures(ip)
            got == SelectSeq(AlertsOf("AUTH_FAIL_BURST"),
                             LAMBDA a : a.context.ip = ip)
        IN RecordedWithin(evs, 1) =>
             /\ Len(got) = IF Len(evs) >= 10 THEN Len(evs) - 9 ELSE 0
             /\ \A j \in 1..Len(got) :
                   /\ got[j].trigger_event_id = evs[9 + j].id
                   /\ got[j].context.count = 9 + j
             /\ Len(evs) = 12 =>
                   [j \in 1..Len(got) |-> got[j].context.count] = <<10, 11, 12>>

\* 12 events of one IP within one minute and the three alerts they raise.
C2_Witness ==
    \E ip \in BurstIps \ {NULL} :
        LET evs == AuthFailures(ip)
        IN /\ Len(evs) = 12
           /\ Len(audit) = 12
           /\ RecordedWithin(evs, 1)
           /\ [j \in 1..Len(alerts) |-> alerts[j].context.count] = <<10, 11, 12>>

EventsOf(sub) == SelectSeq(audit, LAMBDA r : r.actor_sub = sub)

IsSuccessfulLogin(r) ==
    r.action = "auth:login" /\ r.result = "success" /\ r.ip # NULL

\* The source IPs of the first k rows.
IpsUpTo(rows, k) == {rows[j].ip : j \in 1..k}

\* C3: when all the audit events of an actor are successful logins recorded
\* within 5 minutes, a login that leaves the actor with one distinct IP (the
\* first login among them) has no IMPOSSIBLE_TRAVEL alert; the login that
\* brings the second distinct IP has exactly one, of severity high, whose ips
\* are the distinct IPs seen so far; and after exactly two logins from two
\* IPs the actor has exactly one IMPOSSIBLE_TRAVEL alert.
C3_TravelFiresOnSecondIp ==
    \A sub \in Subs :
        LET evs == EventsOf(sub)
        IN (/\ \A k \in 1..Len(evs) : IsSuccessfulLogin(evs[k])
            /\ RecordedWithin(evs, 5)) =>
             /\ \A k \in 1..Len(evs) :
                   LET got == AlertsOn("IMPOSSIBLE_TRAVEL", evs[k].id)
                   IN /\ Cardinality(IpsUpTo(evs, k)) = 1 => Len(got) = 0
                      /\ (/\ Cardinality(IpsUpTo(evs, k)) = 2
                          /\ Cardinality(IpsUpTo(evs, k - 1)) = 1) =>
                            /\ Len(got) = 1
                            /\ got[1].severity = "high"
                            /\ got[1].context.actor_sub = sub
                            /\ got[1].context.ips = IpsUpTo(evs, k)
             /\ (Len(evs) = 2 /\ evs[1].ip # evs[2].ip) =>
                   Len(SelectSeq(AlertsOf("IMPOSSIBLE_TRAVEL"),
                                 LAMBDA a : a.context.actor_sub = sub)) = 1

\* Two logins of one actor, from two IPs, 5 minutes apart, and the one alert.
C3_Witness ==
    \E sub \in Subs :
        LET evs == EventsOf(sub)
        IN /\ Len(evs) = 2
           /\ IsSuccessfulLogin(evs[1]) /\ IsSuccessfulLogin(evs[2])
           /\ evs[1].ip # evs[2].ip
           /\ evs[1].ts < evs[2].ts
           /\ RecordedWithin(evs, 5)
           /\ Len(AlertsOn("IMPOSSIBLE_TRAVEL", evs[1].id)) = 0
           /\ Len(AlertsOn("IMPOSSIBLE_TRAVEL", evs[2].id)) = 1
           /\ Len(AlertsOf("IMPOSSIBLE_TRAVEL")) = 1

\* The source IPs of the login events of an actor up to the row with this id.
LoginIps(sub, event_id) ==
    {audit[i].ip : i \in {j \in 1..Len(audit) :
                            /\ audit[j].action = "auth:login"
                            /\ audit[j].actor_sub = sub
                            /\ audit[j].ip # NULL
                            /\ audit[j].id <= event_id}}

\* C4: IMPOSSIBLE_TRAVEL counts source IPs among the actor's login events
\* only: every IMPOSSIBLE_TRAVEL alert lists IPs of login events of its actor
\* and nothing else, and its actor has login events from two IPs at least.
C4_TravelCountsLoginIpsOnly ==
    \A j \in 1..Len(alerts) :
        alerts[j].rule_id = "IMPOSSIBLE_TRAVEL" =>
            LET ips == LoginIps(alerts[j].context.actor_sub,
                                alerts[j].trigger_event_id)
            IN /\ alerts[j].context.ips \subseteq ips
               /\ Cardinality(ips) >= 2

\* The row the latest rule evaluation ran on.
Evaluated == CHOOSE r \in {audit[i] : i \in 1..Len(audit)} : r.id = lastEval.event_id

NotOlderThan(r, ev, window) == r.ts >= ev.ts - window

\* C5: no windowed rule counts an audit event older than its window, measured
\* back from the timestamp of the event the rule runs on: the count of
\* AUTH_FAIL_BURST and the IPs of IMPOSSIBLE_TRAVEL come from rows of the last
\* 5 minutes, the counts of REPEATED_AUTHZ_DENIED and
\* PRIVILEGE_ESCALATION_ATTEMPT from rows of the last 10.
C5_OldEventsNeverCounted ==
    lastEval.event_id > 0 =>
        LET ev == Evaluated
        IN /\ lastEval.recent1 <=
                Count(audit, LAMBDA r : /\ r.action = "auth:token_invalid"
                                        /\ r.ip = ev.ip
                                        /\ NotOlderThan(r, ev, 5))
           /\ lastEval.recent3 <=
                Count(audit, LAMBDA r : /\ r.action = "authz:denied"
                                        /\ r.actor_sub = ev.actor_sub
                                        /\ NotOlderThan(r, ev, 10))
           /\ lastEval.ips4 \subseteq
                {audit[i].ip : i \in {j \in 1..Len(audit) :
                                        /\ audit[j].actor_sub = ev.actor_sub
                                        /\ NotOlderThan(audit[j], ev, 5)}}
           /\ lastEval.denials5 <=
                Count(audit, LAMBDA r : /\ r.action = "authz:denied"
                                        /\ r.actor_sub = ev.actor_sub
                                        /\ HasAdmin(r.target)
                                        /\ NotOlderThan(r, ev, 10))

\* A denial on an admin target is evaluated 11 minutes after an earlier one
\* of the same actor: both 10-minute rules count 1.
C5_Witness ==
    /\ lastEval.event_id > 0
    /\ lastEval.recent3 = 1
    /\ lastEval.denials5 = 1
    /\ \E i \in 1..Len(audit) :
          /\ audit[i].action = "authz:denied"
          /\ audit[i].actor_sub = Evaluated.actor_sub
          /\ HasAdmin(audit[i].target)
          /\ audit[i].ts < Evaluated.ts - 10

InWindowOf(r, ev, window) == r.ts >= ev.ts - window /\ r.ts <= ev.ts

\* C6: the window of every windowed rule is anchored at the timestamp t of the
\* event the rule runs on: the value the rule compares with its threshold is
\* the number of matching rows with a timestamp in [t - window, t], whatever
\* the clock reads when the rule runs.
C6_WindowAnchoredAtEvent ==
    lastEval.event_id > 0 =>
        LET ev == Evaluated
        IN /\ lastEval.recent1 >= 0 =>
                lastEval.recent1 =
                    Count(audit, LAMBDA r : /\ r.action = "auth:token_invalid"
                                            /\ r.ip = ev.ip
                                            /\ InWindowOf(r, ev, 5))
           /\ lastEval.recent3 >= 0 =>
                lastEval.recent3 =
                    Count(audit, LAMBDA r : /\ r.action = "authz:denied"
                                            /\ r.actor_sub = ev.actor_sub
                                            /\ InWindowOf(r, ev, 10))
           /\ lastEval.ran4 =>
                lastEval.ips4 =
                    {audit[i].ip : i \in {j \in 1..Len(audit) :
                                            /\ audit[j].actor_sub = ev.actor_sub
                                            /\ audit[j].ip # NULL
                                            /\ InWindowOf(audit[j], ev, 5)}}
           /\ lastEval.denials5 >= 0 =>
                lastEval.denials5 =
                    Count(audit, LAMBDA r : /\ r.action = "authz:denied"
                                            /\ r.actor_sub = ev.actor_sub
                                            /\ HasAdmin(r.target)
                                            /\ InWindowOf(r, ev, 10))

AdminDenials(sub) ==
    SelectSeq(audit, LAMBDA r : /\ r.action = "authz:denied"
                                /\ r.actor_sub = sub
                                /\ HasAdmin(r.target))

\* C7: when the authz:denied events of an actor on admin targets were all
\* recorded within 10 minutes, the 1st and the 2nd have no
\* PRIVILEGE_ESCALATION_ATTEMPT alert and the 3rd has exactly one, of severity
\* high; after exactly 3 such denials the actor has exactly one such alert,
\* triggered by the 3rd.
C7_EscalationFiresOnThird ==
    \A sub \in Subs :
        LET evs == AdminDenials(sub)
            mine == SelectSeq(AlertsOf("PRIVILEGE_ESCALATION_ATTEMPT"),
                              LAMBDA a : a.context.actor_sub = sub)
        IN RecordedWithin(evs, 10) =>
             /\ \A k \in 1..Len(evs) :
                   k <= 3 =>
                     LET got == AlertsOn("PRIVILEGE_ESCALATION_ATTEMPT", evs[k].id)
                     IN /\ Len(got) = IF k = 3 THEN 1 ELSE 0
                        /\ \A j \in 1..Len(got) : got[j].severity = "high"
             /\ Len(evs) = 3 =>
                   /\ Len(mine) = 1
                   /\ mine[1].trigger_event_id = evs[3].id

\* Three admin denials of one actor over 10 minutes, and the alert on the 3rd.
C7_Witness ==
    \E sub \in Subs :
        LET evs == AdminDenials(sub)
        IN /\ Len(evs) = 3
           /\ evs[1].ts + 10 = evs[3].ts
           /\ RecordedWithin(evs, 10)
           /\ Len(AlertsOf("PRIVILEGE_ESCALATION_ATTEMPT")) = 1
           /\ alerts[1].trigger_event_id = evs[3].id

InsecureReads == SelectSeq(audit, LAMBDA r : r.action = "tickets:read_insecure")

\* What a call of the insecure read does to the two tables, from this state.
C8_Call(sub, ip, ticket_id) ==
    \A db \in {get_ticket_insecure(Db, sub, ip, ticket_id)} :
        /\ Len(db.audit) = Len(audit) + 1
        /\ SubSeq(db.audit, 1, Len(audit)) = audit
        /\ db.audit[Len(db.audit)].action = "tickets:read_insecure"
        /\ db.audit[Len(db.audit)].target = <<"ticket:", ToString(ticket_id)>>
        /\ Len(db.alerts) = Len(alerts) + 1
        /\ SubSeq(db.alerts, 1, Len(alerts)) = alerts
        /\ db.alerts[Len(db.alerts)].rule_id = "INSECURE_IDOR_ACCESS"
        /\ db.alerts[Len(db.alerts)].severity = "high"
        /\ db.alerts[Len(db.alerts)].trigger_event_id = db.audit[Len(db.audit)].id

\* C8: every call of the insecure read, for a ticket that exists or not and
\* after any history, appends one tickets:read_insecure event with target
\* ticket:<id> and one INSECURE_IDOR_ACCESS alert of severity high triggered
\* by that event; so the calls made so far have left one such alert on each
\* of their events and no other.
C8_InsecureReadAlwaysAlerts ==
    /\ Len(audit) < MaxEvents =>
          \A sub \in Subs, ip \in ClientIps, ticket_id \in TicketIds :
              C8_Call(sub, ip, ticket_id)
    /\ Len(AlertsOf("INSECURE_IDOR_ACCESS")) = Len(InsecureReads)
    /\ \A k \in 1..Len(InsecureReads) :
          Len(AlertsOn("INSECURE_IDOR_ACCESS", InsecureReads[k].id)) = 1

\* Two insecure reads, one of a missing ticket and one of an existing ticket,
\* and the two alerts.
C8_Witness ==
    /\ Len(InsecureReads) = 2
    /\ InsecureReads[1].result = "fail"
    /\ InsecureReads[2].result = "success"
    /\ Len(AlertsOf("INSECURE_IDOR_ACCESS")) = 2

\* C9: every alert has a severity in {low, med, high}; every
\* BLOCKED_IDOR_ATTEMPT and every REPEATED_AUTHZ_DENIED alert has severity med.
C9_SeverityIsLowMedHigh ==
    \A j \in 1..Len(alerts) :
        /\ alerts[j].severity \in {"low", "med", "high"}
        /\ alerts[j].rule_id \in {"BLOCKED_IDOR_ATTEMPT", "REPEATED_AUTHZ_DENIED"} =>
              alerts[j].severity = "med"

IdorDenials ==
    SelectSeq(audit, LAMBDA r : r.action = "authz:denied" /\ r.reason = "IDOR prevented")

\* C10: every authz:denied event with reason "IDOR prevented" has exactly one
\* BLOCKED_IDOR_ATTEMPT alert, which carries the actor and the target of the
\* event, however many such events came before it and however recently.
C10_BlockedIdorAlwaysAlerts ==
    /\ Len(AlertsOf("BLOCKED_IDOR_ATTEMPT")) = Len(IdorDenials)
    /\ \A k \in 1..Len(IdorDenials) :
          LET got == AlertsOn("BLOCKED_IDOR_ATTEMPT", IdorDenials[k].id)
          IN /\ Len(got) = 1
             /\ got[1].context.actor_sub = IdorDenials[k].actor_sub
             /\ got[1].context.target = IdorDenials[k].target

\* The same actor is denied the same ticket twice in the same minute: two alerts.
C10_Witness ==
    /\ Len(IdorDenials) = 2
    /\ IdorDenials[1].actor_sub = IdorDenials[2].actor_sub
    /\ IdorDenials[1].target = IdorDenials[2].target
    /\ IdorDenials[1].ts = IdorDenials[2].ts
    /\ Len(AlertsOf("BLOCKED_IDOR_ATTEMPT")) = 2

Denials(sub) ==
    SelectSeq(audit, LAMBDA r : r.action = "authz:denied" /\ r.actor_sub = sub)

\* C11: for the authz:denied events of an actor, REPEATED_AUTHZ_DENIED is
\* emitted on an event exactly when the actor's denials of the last 10
\* minutes, the event included, are at least 5.  When the denials of the
\* actor were all recorded within 10 minutes, the 1st to the 4th have no
\* alert and the 5th and every later one has exactly one, of severity med,
\* with the actor and the running count; and no denial has an alert when
\* fewer than 5 of the actor's denials up to it lie within 10 minutes of it.
C11_RepeatedDeniedFromFifth ==
    \A sub \in Subs :
        LET evs == Denials(sub)
        IN /\ RecordedWithin(evs, 10) =>
                \A k \in 1..Len(evs) :
                    LET got == AlertsOn("REPEATED_AUTHZ_DENIED", evs[k].id)
                    IN /\ Len(got) = IF k >= 5 THEN 1 ELSE 0
                       /\ \A j \in 1..Len(got) :
                             /\ got[j].severity = "med"
                             /\ got[j].context.actor_sub = sub
                             /\ got[j].context.count = k
           /\ \A k \in 1..Len(evs) :
                 Cardinality({j \in 1..k : evs[j].ts >= evs[k].ts - 10}) < 5 =>
                     Len(AlertsOn("REPEATED_AUTHZ_DENIED", evs[k].id)) = 0

\* Six denials of one actor within 10 minutes, with one of another actor
\* among them: alerts on the 5th and on the 6th, none on the first four.
C11_Witness ==
    \E sub \in Subs :
        LET evs == Denials(sub)
        IN /\ Len(evs) = 6
           /\ Len(audit) = 7
           /\ RecordedWithin(evs, 10)
           /\ evs[1].ts < evs[6].ts
           /\ Len(AlertsOn("REPEATED_AUTHZ_DENIED", evs[4].id)) = 0
           /\ Len(AlertsOn("REPEATED_AUTHZ_DENIED", evs[5].id)) = 1
           /\ Len(AlertsOn("REPEATED_AUTHZ_DENIED", evs[6].id)) = 1
           /\ Len(AlertsOf("REPEATED_AUTHZ_DENIED")) = 2

\* The alert with this id, in these rows (a sequence of at most one row).
Linked(rows, alert_id) ==
    SelectSeq(rows, LAMBDA a : a.id = alert_id /\ a.ticket_id # 0)

\* What a step does to the links, and what an escalation of a linked alert does.
C12_Step ==
    /\ \A i \in 1..Len(alerts), j \in 1..Len(alerts') :
          (alerts[i].ticket_id # 0 /\ alerts'[j].id = alerts[i].id) =>
              alerts'[j].ticket_id = alerts[i].ticket_id
    /\ \A sub \in AdminSubs, ip \in ClientIps, alert_id \in AlertIds :
          (Linked(alerts, alert_id) # <<>> /\ EscalateAlert(sub, ip, alert_id)) =>
              /\ response'.ticket_id = Linked(alerts, alert_id)[1].ticket_id
              /\ response'.detail = "Ticket already exists"
              /\ tickets' = tickets
              /\ alerts' = alerts
              /\ audit' = audit

\* C12: the link of an alert to a ticket is set at most once: once the
\* ticket id of an alert is set no step changes it while the alert exists,
\* and every further escalation of the alert returns that ticket id, creates
\* no ticket and leaves the alert as it is.
C12_LinkSetOnce == [][C12_Step]_vars

\* An alert was escalated, resolved and escalated again: the second
\* escalation returned the ticket of the first and the alert is still resolved.
C12_Witness ==
    /\ response.op = "escalate_alert"
    /\ response.detail = "Ticket already exists"
    /\ Linked(alerts, response.alert_id) # <<>>
    /\ Linked(alerts, response.alert_id)[1].ticket_id = response.ticket_id
    /\ Linked(alerts, response.alert_id)[1].triage_status = "resolved"
    /\ Len(tickets) = 1

\* The tickets that were created from the alert with this id.
TicketsFrom(alert_id) ==
    SelectSeq(tickets, LAMBDA t : t.source_alert_id = alert_id)

\* C13: escalation never produces two tickets for one alert, whatever the
\* interleaving of concurrent escalations of the alert and whichever request
\* fails between its ticket commit and its link commit: at most one ticket
\* was created from each alert.
C13_OneTicketPerAlert ==
    \A alert_id \in AlertIds : Len(TicketsFrom(alert_id)) <= 1

\* C14: a failing status update leaves all state unchanged.  A status update
\* of an existing alert with a value outside the four statuses is rejected as
\* invalid, a status update of an absent alert fails as not found, and in
\* both cases the result of the handler has the audit trail, the alerts (and
\* so every triage_status) and the tickets of the state it was called in.
C14_FailedUpdateChangesNothing ==
    \A sub \in AdminSubs, ip \in ClientIps, alert_id \in AlertIds,
       new_status \in StatusInputs :
        \A r \in {update_alert_status(Db, tickets, sub, ip, alert_id, new_status)} :
            /\ FindAlert(alerts, alert_id) = <<>>
                  => r.response.code = 404 /\ r.response.detail = "Alert not found"
            /\ FindAlert(alerts, alert_id) # <<>> /\ new_status \notin STATUSES
                  => r.response.code = 400 /\ r.response.detail = "Invalid status"
            /\ r.response.code # 200 => r.db = Db /\ r.tickets = tickets

\* An invalid status was just refused for an alert that exists, after
\* successful updates were recorded.
C14_Witness ==
    /\ response.op = "update_alert_status" /\ response.code = 400
    /\ FindAlert(alerts, response.alert_id) # <<>>
    /\ \E i \in 1..Len(audit) : audit[i].action = "alert:triage"

\* C15: the triage status follows new -> investigating -> resolved |
\* false_positive; once an alert has left status new no successful status
\* update returns it to new: the trail has no successful alert:triage event
\* that changed a status other than new to new.
C15_NeverBackToNew ==
    \A i \in 1..Len(audit) :
        audit[i].action = "alert:triage" /\ audit[i].result = "success"
            => \A old_status \in STATUSES \ {"new"} :
                   audit[i].reason # StatusChange(old_status, "new")

\* The requests that returned from their call of audit_and_detect.
Returned == {i \in 1..Len(requests) :
                requests[i].pc = "done" /\ requests[i].event_id # 0}

\* The audit event a request appended.
Appended(i) == LastById(SelectSeq(audit, LAMBDA r : r.id = requests[i].event_id))

\* C16: under any interleaving of concurrent requests, every audit event
\* appended through audit_and_detect is evaluated exactly once, as the
\* triggering event of the request that appended it: the event a returned
\* request ran the rules on is the event it appended, so no two returned
\* requests evaluated the same event, no appended event was skipped, and every
\* alert a request emitted carries the id of that request's event.
C16_EvaluatesOwnEvent ==
    \A i \in Returned : requests[i].evaluated = requests[i].event_id

\* C17: append, commit, evaluate, persist alerts, return.  When a request has
\* returned from audit_and_detect its event is in the trail, the alert the
\* event triggers (every insecure read triggers INSECURE_IDOR_ACCESS) is in
\* the alert store, and no alert with this trigger is created later: the
\* alerts of the event are those that existed when the call returned.
C17_AlertsExistOnReturn ==
    \A i \in Returned :
        /\ \E k \in 1..Len(audit) : audit[k].id = requests[i].event_id
        /\ Appended(i).action = "tickets:read_insecure"
              => AlertsOn("INSECURE_IDOR_ACCESS", requests[i].event_id) # <<>>
        /\ Len(TriggeredBy(alerts, requests[i].event_id))
              = requests[i].alerts_on_return

\* The authz:denied events of the actor up to the event with this id.
DenialsUpTo(sub, event_id) ==
    SelectSeq(Denials(sub), LAMBDA r : r.id <= event_id)

\* C18: read-your-own-write.  The count of a windowed rule includes the event
\* it is evaluated for, so it is at least 1; and REPEATED_AUTHZ_DENIED has
\* fired no later than the 5th denial of an actor within 10 minutes: when the
\* request that appended such a denial has returned, the actor has an alert of
\* the rule (triggered by that denial, an earlier or a later one).
C18_FiresByNthEvent ==
    /\ lastEval.recent3 # -1 => lastEval.recent3 >= 1
    /\ lastEval.recent1 # -1 => lastEval.recent1 >= 1
    /\ \A i \in Returned :
          \A ev \in {Appended(i)} :
              /\ ev.action = "authz:denied"
              /\ Len(DenialsUpTo(ev.actor_sub, ev.id)) >= AUTHZ_DENIED_MIN
              /\ RecordedWithin(DenialsUpTo(ev.actor_sub, ev.id), WINDOW_10)
              => \E k \in 1..Len(alerts) :
                    /\ alerts[k].rule_id = "REPEATED_AUTHZ_DENIED"
                    /\ alerts[k].context.actor_sub = ev.actor_sub

\* The rows of the first table are the first rows of the second, unchanged.
Extends(before, after) ==
    /\ Len(after) >= Len(before)
    /\ SubSeq(after, 1, Len(before)) = before

\* C19: audit events are immutable and append-only.  Every step that is not
\* the bulk purge (raising an alert, creating a ticket, a status update, an
\* escalation, clearing the alerts) leaves every audit event written before it
\* in the trail, in its place and with every field unchanged.
C19_AppendOnly ==
    [][(\E sub \in AdminSubs, ip \in ClientIps : ClearAuditLog(sub, ip))
          \/ Extends(audit, audit')]_vars

\* A purge was recorded, and a status update and an escalation were recorded
\* after it.
C19_Witness ==
    /\ Len(audit) = 3
    /\ audit[1].action = "admin:clear_audit"
    /\ audit[2].action = "alert:triage"
    /\ audit[3].action = "alert:escalate"

\* The record clear_audit_log writes after it deleted `count` events.
PurgeRecord(sub, ip, count) ==
    AuditEvent(<<>>, now,
               Input(sub, ip, "admin:clear_audit", <<"audit_events">>, "success",
                     "deleted " \o ToString(count) \o " events"))

\* C20: a bulk purge of the audit trail is itself audited.  When an authorized
\* purge returns, the trail is the record of the purge alone: an
\* admin:clear_audit success event by the purging actor whose reason gives the
\* number of events deleted, written after the deletion.  A purge attempt that
\* is refused deletes nothing and appends an authz:denied event of the actor.
C20_PurgeIsAudited ==
    \A sub \in AdminSubs, ip \in ClientIps :
        \A r \in {clear_audit_log(Db, tickets, sub, ip)} :
            IF require_perm(Claims(sub), "admin:export_audit")
            THEN /\ r.response.code = 200
                 /\ r.db.audit = <<PurgeRecord(sub, ip, Len(audit))>>
            ELSE /\ r.response.code = 403
                 /\ Extends(audit, r.db.audit)
                 /\ Len(r.db.audit) = Len(audit) + 1
                 /\ r.db.audit[Len(r.db.audit)].action = "authz:denied"
                 /\ r.db.audit[Len(r.db.audit)].actor_sub = sub

\* A purge of three events has just returned.
C20_Witness ==
    /\ response.op = "clear_audit_log" /\ response.code = 200
    /\ response.detail = "Cleared 3 audit events"
    /\ \E sub \in AdminSubs, ip \in ClientIps : audit = <<PurgeRecord(sub, ip, 3)>>

\* C21: every successful deletion of alerts, single or bulk, appends an audit
\* event recording it: the trail a successful delete_alert or
\* clear_all_alerts leaves is the trail it found with one more event.
C21_AlertDeletionIsAudited ==
    \A sub \in AdminSubs :
        /\ \A alert_id \in AlertIds :
              \A r \in {delete_alert(Db, tickets, sub, alert_id)} :
                  r.response.code = 200
                      => Extends(audit, r.db.audit)
                         /\ Len(r.db.audit) = Len(audit) + 1
        /\ \A r \in {clear_all_alerts(Db, tickets, sub)} :
              r.response.code = 200 /\ alerts # <<>>
                  => Extends(audit, r.db.audit)
                     /\ Len(r.db.audit) = Len(audit) + 1

\* The requests in which a rule raised.
RuleFailed == {i \in 1..Len(requests) : requests[i].failed_rule # "none"}

\* C22: rule failures are isolated per rule.  When a rule raised for the
\* latest event, every other rule whose condition holds for the event has
\* emitted its alert, the event is committed, and the request that recorded
\* it was not failed.
C22_RuleFailureIsolated ==
    \A i \in RuleFailed :
        requests[i].evaluated = MaxId(audit)
            => \A ev \in {LastById(audit)} :
                  /\ \A k \in 1..Len(RULES) :
                        /\ RULES[k] # requests[i].failed_rule
                        /\ RuleDrafts(k, audit, ev, now) # <<>>
                        => AlertsOn(RULES[k], ev.id) # <<>>
                  /\ requests[i].pc = "done"

\* The requests that are past write_audit and appended no event: the store
\* was unavailable.
AppendFailed == {i \in 1..Len(requests) :
                    requests[i].pc # "audit" /\ requests[i].event_id = 0}

\* C23: when the audit append fails because the store is unavailable, the
\* call fails and the error reaches the caller: the request ends failed, it
\* ran the rules on no event and no alert was created for it; the trail and
\* the alert store are those of the requests that did append.
C23_AppendFailurePropagates ==
    /\ \A i \in AppendFailed :
          /\ requests[i].pc = "failed"
          /\ requests[i].evaluated = 0
          /\ requests[i].alerts_on_return = 0
    /\ \A k \in 1..Len(alerts) :
          \E j \in 1..Len(audit) : audit[j].id = alerts[k].trigger_event_id

\* A read failed at the append while the read of another request was
\* recorded and raised its alert.
C23_Witness ==
    /\ AppendFailed # {}
    /\ \E i \in 1..Len(requests) :
          /\ requests[i].pc = "done"
          /\ requests[i].event_id # 0
          /\ TriggeredBy(alerts, requests[i].event_id) # <<>>

\* The trail records the escalation that linked the alert to this ticket.
EscalationRecorded(ticket_id) ==
    \E k \in 1..Len(audit) :
        /\ audit[k].action = "alert:escalate"
        /\ audit[k].result = "success"
        /\ audit[k].target = TicketTarget(ticket_id)

\* A request that linked the alert to this ticket has still to write the
\* audit event.
EscalationPending(alert_id, ticket_id) ==
    \E i \in 1..Len(requests) :
        /\ requests[i].op = "escalate_alert" /\ requests[i].pc = "audit"
        /\ requests[i].alert_id = alert_id
        /\ requests[i].ticket_id = ticket_id

\* C24: audit completeness.  In every reachable state, also after an audit
\* write has failed, a persisted change has its committed audit event: an
\* alert that is linked to a ticket has the alert:escalate event of that
\* ticket in the trail, unless the request that linked it is still on its
\* way to write it.
C24_ChangeHasAuditRecord ==
    \A k \in 1..Len(alerts) :
        alerts[k].ticket_id # 0
            => \/ EscalationRecorded(alerts[k].ticket_id)
               \/ EscalationPending(alerts[k].id, alerts[k].ticket_id)

\* C25: windowed counts are keyed by the key of the triggering event.  The
\* count rule 1 computes for a rejected token is at most the number of
\* rejected tokens from the event's own address, the count of rule 3 at most
\* the number of denials of the event's own actor, and the count of rule 5 at
\* most the number of that actor's denials on admin targets; so an alert of
\* these rules is emitted only for a key that itself has events up to the
\* threshold.
C25_CountsKeyedByTrigger ==
    /\ lastEval.recent1 # -1
          => lastEval.recent1 <= Len(AuthFailures(Evaluated.ip))
    /\ lastEval.recent3 # -1
          => lastEval.recent3 <= Len(Denials(Evaluated.actor_sub))
    /\ lastEval.denials5 # -1
          => lastEval.denials5 <= Len(AdminDenials(Evaluated.actor_sub))
    /\ \A k \in 1..Len(alerts) :
          /\ alerts[k].rule_id = "AUTH_FAIL_BURST"
                => Len(AuthFailures(alerts[k].context.ip)) >= AUTH_FAIL_MIN
          /\ alerts[k].rule_id = "REPEATED_AUTHZ_DENIED"
                => Len(Denials(alerts[k].context.actor_sub)) >= AUTHZ_DENIED_MIN
          /\ alerts[k].rule_id = "PRIVILEGE_ESCALATION_ATTEMPT"
                => Len(AdminDenials(alerts[k].context.actor_sub))
                       >= ADMIN_DENIED_MIN

\* The last event is an admin denial of U1, evaluated in the same minute as
\* an admin denial of U2 and a denial of U1 on another target: rule 5 counted
\* one event and rule 3 two.
C25_Witness ==
    /\ Len(audit) = 3
    /\ lastEval.event_id = 3
    /\ Evaluated.actor_sub = "U1"
    /\ \E i \in 1..2 : audit[i].actor_sub = "U2" /\ HasAdmin(audit[i].target)
                       /\ audit[i].ts = audit[3].ts
    /\ \E i \in 1..2 : audit[i].actor_sub = "U1" /\ ~HasAdmin(audit[i].target)
                       /\ audit[i].action = "authz:denied"
    /\ lastEval.denials5 = 1
    /\ lastEval.recent3 = 2

\* The actions a rule of run_detections_for_event selects.
RuleActions ==
    {"auth:token_invalid", "authz:denied", "auth:login", "tickets:read_insecure"}

\* The ids of the rows of a table.
IdsOf(rows) == {rows[k].id : k \in 1..Len(rows)}

\* C26, for one step: the alerts the step added were emitted for the event
\* the step recorded, whose action is one a rule selects; each has
\* triage_status new and no linked ticket, and no two are of the same rule.
C26_Step ==
    LET added == SelectSeq(alerts', LAMBDA a : a.id \notin IdsOf(alerts))
    IN /\ added # <<>>
             => /\ audit' # audit /\ audit' # <<>>
                /\ LastById(audit').action \in RuleActions
       /\ \A k \in 1..Len(added) :
             /\ added[k].triage_status = "new"
             /\ added[k].ticket_id = 0
             /\ added[k].trigger_event_id = LastById(audit').id
             /\ \A j \in 1..Len(added) :
                   added[j].rule_id = added[k].rule_id => j = k

\* C26: alerts are created only by rule evaluation, at most one per rule per
\* evaluated event.  A step that records an event of another action
\* (tickets:create, alert:triage, alert:escalate, admin:clear_audit) adds no
\* alert, and every newly emitted alert has triage_status new and no linked
\* ticket.
C26_AlertsOnlyFromRules == [][C26_Step]_vars

\* Two alerts were raised; then the trail was purged and a ticket created,
\* and the alert store still holds the two alerts, new and unlinked.
C26_Witness ==
    /\ Len(audit) = 2
    /\ audit[1].action = "admin:clear_audit"
    /\ audit[2].action = "tickets:create"
    /\ Len(alerts) = 2
    /\ \A k \in 1..2 : alerts[k].triage_status = "new" /\ alerts[k].ticket_id = 0

\* C27: audit event ids are unique and never reused, also across a bulk
\* purge, so the trigger_event_id of an alert never resolves to an audit event
\* other than the one that triggered it: the ids of the trail are pairwise
\* different, and the event an INSECURE_IDOR_ACCESS alert points to, while it
\* is in the trail, is an insecure read by the alert's actor.
C27_IdsNeverReused ==
    /\ \A i, j \in 1..Len(audit) : audit[i].id = audit[j].id => i = j
    /\ \A k \in 1..Len(alerts), i \in 1..Len(audit) :
          /\ alerts[k].rule_id = "INSECURE_IDOR_ACCESS"
          /\ audit[i].id = alerts[k].trigger_event_id
          => /\ audit[i].action = "tickets:read_insecure"
             /\ audit[i].actor_sub = alerts[k].context.actor_sub

\* What a secure read of an existing ticket does, from this state.
C28_Call(sub, ip, t) ==
    \A r \in {get_ticket_secure(Db, sub, ip, t.id)} :
        IF t.owner_sub = sub \/ roles_from_claims(Claims(sub)) \cap {"analyst", "admin"} # {}
        THEN r.response.code = 200 /\ r.response.ticket_id = t.id
        ELSE /\ r.response.code = 403 /\ r.response.ticket_id = 0
             /\ Len(r.db.audit) = Len(audit) + 1
             /\ \A ev \in {r.db.audit[Len(r.db.audit)]} :
                   /\ ev.action = "authz:denied"
                   /\ ev.reason = "IDOR prevented"
                   /\ ev.actor_sub = sub
                   /\ ev.target = TicketTarget(t.id)
                   /\ Len(SelectSeq(r.db.alerts,
                          LAMBDA a : /\ a.rule_id = "BLOCKED_IDOR_ATTEMPT"
                                     /\ a.trigger_event_id = ev.id)) = 1
             /\ Len(SelectSeq(r.db.alerts,
                    LAMBDA a : a.rule_id = "BLOCKED_IDOR_ATTEMPT"))
                   = Len(AlertsOf("BLOCKED_IDOR_ATTEMPT")) + 1

\* The successful secure reads the trail records.
SecureReads ==
    SelectSeq(audit, LAMBDA r : r.action = "tickets:read" /\ r.result = "success")

\* C28: the secure ticket read prevents IDOR.  It returns the content of a
\* ticket only to its owner or to a caller with the analyst or admin role;
\* a read of an existing ticket by any other caller returns no content,
\* appends an authz:denied event with reason "IDOR prevented" and emits one
\* BLOCKED_IDOR_ATTEMPT alert for it.  So every successful read in the trail
\* is a read by the owner of the ticket.
C28_SecureReadPreventsIdor ==
    /\ Len(audit) < MaxEvents =>
          \A sub \in Subs, ip \in ClientIps, k \in 1..Len(tickets) :
              C28_Call(sub, ip, tickets[k])
    /\ \A j \in 1..Len(SecureReads) :
          \E k \in 1..Len(tickets) :
              /\ TicketTarget(tickets[k].id) = SecureReads[j].target
              /\ tickets[k].owner_sub = SecureReads[j].actor_sub

\* The owner has read the ticket, and another actor was refused.
C28_Witness ==
    /\ Len(SecureReads) = 1
    /\ Len(IdorDenials) = 1
    /\ IdorDenials[1].target = SecureReads[1].target
    /\ IdorDenials[1].actor_sub # SecureReads[1].actor_sub
    /\ Len(AlertsOn("BLOCKED_IDOR_ATTEMPT", IdorDenials[1].id)) = 1

\* What an escalation of an alert with no linked ticket does, from this state.
C29_Call(sub, ip, alert) ==
    \A r \in {escalate_alert(Db, tickets, sub, ip, alert.id)} :
        \A ticket \in {r.tickets[Len(r.tickets)]} :
            /\ r.response.code = 200 /\ r.response.detail = "Ticket created"
            /\ r.response.ticket_id = ticket.id
            /\ Extends(tickets, r.tickets)
            /\ Len(r.tickets) = Len(tickets) + 1
            /\ ticket.id \notin IdsOf(tickets)
            /\ ticket.status = "open" /\ ticket.owner_sub = sub
            /\ Len(r.db.alerts) = Len(alerts)
            /\ \A k \in 1..Len(alerts) :
                  r.db.alerts[k] =
                      IF alerts[k].id = alert.id
                      THEN [alerts[k] EXCEPT !.ticket_id = ticket.id,
                                             !.triage_status = "investigating"]
                      ELSE alerts[k]
            /\ Extends(audit, r.db.audit)
            /\ Len(r.db.audit) = Len(audit) + 1
            /\ \A ev \in {r.db.audit[Len(r.db.audit)]} :
                  /\ ev.action = "alert:escalate" /\ ev.result = "success"
                  /\ ev.actor_sub = sub
                  /\ ev.target = TicketTarget(ticket.id)

\* C29: a successful escalation of an alert with no linked ticket creates
\* exactly one ticket, open and owned by the escalating actor, sets the
\* alert's link to that ticket and its triage_status to investigating
\* together, and appends one alert:escalate event; and in no reachable state
\* is an alert linked to a ticket that does not exist.
C29_EscalationCreatesAndLinks ==
    /\ Len(audit) < MaxEvents /\ Len(tickets) < MaxAlerts =>
          \A sub \in AdminSubs, ip \in ClientIps, k \in 1..Len(alerts) :
              alerts[k].ticket_id = 0 => C29_Call(sub, ip, alerts[k])
    /\ \A k \in 1..Len(alerts) :
          alerts[k].ticket_id # 0 => alerts[k].ticket_id \in IdsOf(tickets)

\* An escalation has just created ticket 1 for an alert that had been set to
\* resolved.
C29_Witness ==
    /\ response.op = "escalate_alert" /\ response.detail = "Ticket created"
    /\ Len(audit) = 3
    /\ audit[2].reason = StatusChange("new", "resolved")
    /\ audit[3].action = "alert:escalate"
    /\ \E k \in 1..Len(alerts) :
          /\ alerts[k].id = response.alert_id
          /\ alerts[k].ticket_id = response.ticket_id
          /\ alerts[k].triage_status = "investigating"
    /\ response.ticket_id \in IdsOf(tickets)

\* C30: reading is not audited.  An authorized export of the audit log, or
\* listing of the alerts, answers 200 and leaves the audit trail, the alert
\* store and the tickets as they were, however often it is repeated; a denied
\* attempt answers 403 and appends an authz:denied event of the caller.
C30_ReadingIsNotAudited ==
    \A sub \in Subs, ip \in ClientIps :
        \A r \in {export_audit(Db, tickets, sub, ip),
                  list_alerts(Db, tickets, sub, ip)} :
            IF require_perm(Claims(sub), "admin:export_audit")
            THEN /\ r.response.code = 200
                 /\ r.db = Db
                 /\ r.tickets = tickets
            ELSE /\ r.response.code = 403
                 /\ Extends(audit, r.db.audit)
                 /\ Len(r.db.audit) = Len(audit) + 1
                 /\ r.db.audit[Len(r.db.audit)].action = "authz:denied"
                 /\ r.db.audit[Len(r.db.audit)].actor_sub = sub

\* The audit log was exported after an alert was raised and triaged.
C30_Witness ==
    /\ response.op = "export_audit" /\ response.code = 200
    /\ Len(audit) = 2
    /\ audit[2].action = "alert:triage"
    /\ Len(alerts) = 1

\* The events the endpoints and the library callers pass to the entry point.
EntryInputs ==
    RuleInputs
    \cup {InsecureReadInput(sub, "10.0.0.1", 1) : sub \in AdminSubs}

\* C31: without interleaving, the two implementations of the entry point are
\* equivalent.  In every state the endpoints reach one request at a time
\* (purges of the trail included), writing an event and re-querying the row
\* with the highest id evaluates the same event at the same clock reading and
\* leaves the same audit trail and the same alerts as committing the event,
\* refreshing it and evaluating it.
C31_EntryPointsEquivalent ==
    \A in \in EntryInputs, delay \in Delays :
        \A a \in {audit_and_detect(Db, in, delay)} :
            \A r \in {route_audit_and_detect(Db, in, delay)} :
                /\ r.lastEval.event_id = a.lastEval.event_id
                /\ r.lastEval = a.lastEval
                /\ r.audit = a.audit
                /\ r.alerts = a.alerts
                /\ r.now = a.now

\* A route-level call evaluated the second event of a trail that starts with
\* the record of a purge, and raised an alert for it.
C31_Witness ==
    /\ Len(audit) = 2
    /\ audit[1].action = "admin:clear_audit"
    /\ audit[2].id = 2
    /\ lastEval.event_id = 2
    /\ \E i \in 1..Len(alerts) : alerts[i].trigger_event_id = 2

\* The log of an address that has used up its limit at clock reading t.
FullLog(t) == [i \in 1..requests_per_minute |-> t]

\* C32: for each address the rate limiter admits at most requests_per_minute
\* (100) requests other than OPTIONS in any sliding window of 60 seconds (the
\* requests younger than 60 seconds at any clock reading).  A request is
\* rejected with 429 exactly when its address has requests_per_minute
\* admitted requests younger than 60 seconds; a rejected request is not
\* recorded and an admitted one is; the logs of other addresses neither
\* change nor affect the decision, even when they are full; an OPTIONS
\* request passes and leaves the log as it is.
C32_RateLimitPerAddress ==
    \A ip \in Ips :
        /\ Len(admitted[ip]) <= requests_per_minute
        /\ \A r \in {dispatch(request_log, "GET", ip, clock)} :
              /\ r.code = 429 <=> Len(admitted[ip]) >= requests_per_minute
              /\ r.code = 429 => r.request_log[ip] = admitted[ip]
              /\ r.code # 429 =>
                    /\ r.code = 200
                    /\ r.request_log[ip] = Append(admitted[ip], clock)
              /\ \A other \in Ips \ {ip} :
                    /\ r.request_log[other] = request_log[other]
                    /\ dispatch([request_log EXCEPT ![other] = FullLog(clock)],
                                "GET", ip, clock).code = r.code
        /\ \A o \in {dispatch(request_log, "OPTIONS", ip, clock)} :
              /\ o.code = 200
              /\ o.request_log = request_log

\* A request is rejected a window after the first request of its address,
\* when the requests of the first half window have left the window and those
\* of the second half and of this instant fill it; the other address has
\* sent a request too.
C32_Witness ==
    /\ clock = 60
    /\ response.op = "dispatch" /\ response.code = 429
    /\ Len(request_log["10.0.0.1"]) = requests_per_minute
    /\ request_log["10.0.0.1"][1] = 30
    /\ request_log["10.0.0.1"][requests_per_minute] = 60
    /\ request_log["10.0.0.2"] # <<>>

\* The requests of the attack simulation that returned.
Simulated ==
    {i \in 1..Len(requests) :
        /\ requests[i].op = "simulate_attacks"
        /\ requests[i].pc = "done"
        /\ requests[i].step > 0}

\* The audit events recorded before the simulation started.
Before(i) == SubSeq(audit, 1, Len(audit) - requests[i].step)

\* Nothing was logged by the calling actor or from the calling address in
\* the rules' windows before the simulation.
NoHistory(i) ==
    \A k \in 1..Len(Before(i)) :
        \/ Before(i)[k].ts < Cutoff(audit[Len(Before(i)) + 1].ts, WINDOW_10)
        \/ /\ Before(i)[k].actor_sub # requests[i].sub
           /\ Before(i)[k].ip # requests[i].ip

\* The alerts of the rule that the events of the simulation triggered.
AlertsBy(i, rule_id) ==
    Len(SelectSeq(alerts,
            LAMBDA a : /\ a.rule_id = rule_id
                       /\ a.trigger_event_id > MaxId(Before(i))))

\* C33: run from a state with no audit history of the calling actor and
\* address inside the windows, the attack simulation appends 24 audit events
\* and emits exactly 3 AUTH_FAIL_BURST, 1 IMPOSSIBLE_TRAVEL, 6
\* REPEATED_AUTHZ_DENIED and 2 PRIVILEGE_ESCALATION_ATTEMPT alerts, 12 alerts
\* in total and no alert of another rule.
C33_SimulationTriggersEveryRule ==
    \A i \in Simulated :
        NoHistory(i) =>
            /\ requests[i].step = 24
            /\ Len(audit) = Len(Before(i)) + 24
            /\ AlertsBy(i, "AUTH_FAIL_BURST") = 3
            /\ AlertsBy(i, "IMPOSSIBLE_TRAVEL") = 1
            /\ AlertsBy(i, "REPEATED_AUTHZ_DENIED") = 6
            /\ AlertsBy(i, "PRIVILEGE_ESCALATION_ATTEMPT") = 2
            /\ Len(alerts) = 12

\* The simulation returned; before it, the calling actor's address had sent
\* a rejected token more than ten minutes earlier.
C33_Witness ==
    /\ Simulated # {}
    /\ \A i \in Simulated :
          /\ NoHistory(i)
          /\ Before(i) # <<>>
          /\ Before(i)[1].ip = requests[i].ip
    /\ response.op = "simulate_attacks" /\ response.code = 200

====
